---- MODULE Spec2Model ----
(***************************************************************************)
(* Model of the audio-to-MIDI converter: the batch orchestration of        *)
(* main.js (startConversion, cancelConversion, downloadMIDI), the UI state *)
(* of UIController, the FileHandler selection, the PianoTranscription      *)
(* adapter's lazy initialization, the filename sanitizers of MIDIGenerator *)
(* and of the download function, and the download function's handler.      *)
(*                                                                         *)
(* JavaScript runs one handler at a time: a handler runs without           *)
(* interruption up to its next await of real asynchronous work, and a user *)
(* event (a click, an input) runs only while every handler is suspended.   *)
(* Each action below is therefore one such run: a click handler up to its  *)
(* first await, or the continuation of startConversion from one await to   *)
(* the next.                                                               *)
(*                                                                         *)
(* Strings are sequences of one-character strings, so that the regular     *)
(* expressions of the sanitizer act on characters.                         *)
(***************************************************************************)
EXTENDS Integers, Sequences, FiniteSets, TLC

VARIABLES
  \* ---- DOM (UIController.elements) ----
  youtubeUrls,        \* elements.youtubeUrls.value, as its sequence of lines
  customTitle,        \* elements.customTitle.value
  startTime,          \* parseFloat(elements.startTime.value): a number or NaN
  endTime,            \* parseFloat(elements.endTime.value): a number or NaN
  zipOutput,          \* elements.zipOutput.checked
  keepMp3,            \* elements.keepMp3.checked
  keepMp3Disabled,    \* elements.keepMp3.disabled
  includeMp3,         \* elements.includeMp3.checked
  fileInputFiles,     \* elements.fileInput.files.length
  convertBtnDisabled, \* elements.convertBtn.disabled
  cancelBtnDisabled,  \* elements.cancelBtn.disabled
  downloadBtnShown,   \* elements.downloadBtn.style.display = 'block'
  log,                \* the kinds of messages in elements.processingLog
  \* ---- objects ----
  isProcessing,       \* UIController.isProcessing
  selectedFiles,      \* FileHandler.selectedFiles
  model,              \* PianoTranscription.model
  modelLoaded,        \* PianoTranscription.modelLoaded
  outputMIDIPaths,    \* main.js global
  cancelRequested,    \* main.js global
  \* ---- the frame of the running startConversion ----
  pc,                 \* the await startConversion is suspended at, or "idle"
  settings,           \* const settings = ui.getSettings()
  urls,               \* const urls = youtubeDownloader.parseUrls(...)
  files,              \* const selectedFiles = fileHandler.getSelectedFiles()
  audioSources,       \* const audioSources
  i,                  \* the index of the loop that is running
  results,            \* const results
  audioBuffer,        \* let audioBuffer, of the item in flight
  \* ---- observations (not program state) ----
  errors,             \* the per-item 'Failed to process' log entries, in order
  stages,             \* the stages run so far for the item in flight
  called,             \* the collaborators called since the batch started
  lastFailure,        \* the item and the stage of the latest per-item failure
  cancelAt,           \* where startConversion was when cancel was clicked
  saved,              \* the saveAs calls of the last downloadMIDI, and the
                      \* settings it read
  \* ---- argument and result of a pure function under test ----
  fnArg,
  fnRet,
  \* ---- a PianoTranscription object called directly ----
  adapter,
  \* ---- one request to the download function of api/ ----
  handler

domVars == <<youtubeUrls, customTitle, startTime, endTime, zipOutput, keepMp3,
             keepMp3Disabled, includeMp3, fileInputFiles, convertBtnDisabled,
             cancelBtnDisabled, downloadBtnShown, log>>
objVars == <<isProcessing, selectedFiles, model, modelLoaded, outputMIDIPaths,
             cancelRequested>>
frameVars == <<pc, settings, urls, files, audioSources, i, results, audioBuffer>>
obsVars == <<errors, stages, called, lastFailure, cancelAt, saved>>
fnVars == <<fnArg, fnRet, adapter, handler>>
vars == <<domVars, objVars, frameVars, obsVars, fnVars>>

----------------------------------------------------------------------------
(* Bounds of the model *)

\* URL lines plus files the user submits before a conversion
MaxInputs == 3
\* length of the short strings the sanitizer is applied to
MaxNameLen == 3

----------------------------------------------------------------------------
(* Characters and strings *)

\* \w of a JavaScript regular expression: [A-Za-z0-9_]
WordChars ==
  {"a","b","c","d","e","f","g","h","i","j","k","l","m","n","o","p","q","r",
   "s","t","u","v","w","x","y","z",
   "A","B","C","D","E","F","G","H","I","J","K","L","M","N","O","P","Q","R",
   "S","T","U","V","W","X","Y","Z",
   "0","1","2","3","4","5","6","7","8","9","_"}

\* \s of a JavaScript regular expression (the members the model uses)
SpaceChars == {" ", "\t"}

Min(a, b) == IF a < b THEN a ELSE b

\* String.prototype.endsWith
EndsWith(s, suffix) ==
  /\ Len(s) >= Len(suffix)
  /\ SubSeq(s, Len(s) - Len(suffix) + 1, Len(s)) = suffix

\* the positions at which pat occurs in s
Occurrences(s, pat) ==
  {k \in 1..(Len(s) - Len(pat) + 1) : SubSeq(s, k, k + Len(pat) - 1) = pat}

\* String.prototype.replace(pat, rep) with a string pattern: the first
\* occurrence only
ReplaceFirst(s, pat, rep) ==
  IF Occurrences(s, pat) = {} THEN s
  ELSE LET k == CHOOSE n \in Occurrences(s, pat) :
                  \A m \in Occurrences(s, pat) : n <= m
       IN SubSeq(s, 1, k - 1) \o rep \o SubSeq(s, k + Len(pat), Len(s))

\* .replace(/[^\w\s-]/g, '')
StripInvalid(s) ==
  SelectSeq(s, LAMBDA c : c \in WordChars \/ c \in SpaceChars \/ c = "-")

IsSeparator(c) == c = "-" \/ c \in SpaceChars

\* the second replace without the '+': one underscore for each separator
CollapseSeparators_EachSeparator(s) ==
  [k \in 1..Len(s) |-> IF IsSeparator(s[k]) THEN "_" ELSE s[k]]

\* .replace(/[-\s]+/g, '_'): every maximal run of separators becomes one
\* underscore (the last separator of a run stands for the run)
CollapseSeparators(s) ==
  LET positions == [k \in 1..Len(s) |-> k]
      kept == SelectSeq(positions,
                        LAMBDA k : \/ ~IsSeparator(s[k])
                                   \/ k = Len(s)
                                   \/ ~IsSeparator(s[k + 1]))
  IN [j \in 1..Len(kept) |->
        IF IsSeparator(s[kept[j]]) THEN "_" ELSE s[kept[j]]]

\* .substring(0, 200)
MaxFilenameLength == 200
Truncate(s) == SubSeq(s, 1, Min(Len(s), MaxFilenameLength))

DotMid == <<".", "m", "i", "d">>
DotMp3 == <<".", "m", "p", "3">>
DotZip == <<".", "z", "i", "p">>

\* MIDIGenerator.sanitizeFilename
sanitizeFilename(filename) ==
  LET withExt == IF ~EndsWith(filename, DotMid) THEN filename \o DotMid
                 ELSE filename
  IN Truncate(CollapseSeparators(StripInvalid(withExt)))

\* sanitizeFilename of api/download-youtube.js: the same without the suffix
apiSanitizeFilename(filename) ==
  Truncate(CollapseSeparators(StripInvalid(filename)))

\* FileHandler.getFileNameWithoutExtension: name.replace(/\.[^/.]+$/, '')
getFileNameWithoutExtension(name) ==
  LET dots == {k \in 1..Len(name) : name[k] = "."}
  IN IF dots = {} THEN name
     ELSE LET k == CHOOSE n \in dots : \A m \in dots : m <= n
          IN IF k < Len(name) /\ \A m \in (k + 1)..Len(name) : name[m] # "/"
             THEN SubSeq(name, 1, k - 1)
             ELSE name

\* `${n}` for the small positive integers of the model
RECURSIVE NumberToString(_)
NumberToString(n) ==
  LET digit(d) == <<"0","1","2","3","4","5","6","7","8","9">>[d + 1]
  IN IF n < 10 THEN <<digit(n)>>
     ELSE NumberToString(n \div 10) \o <<digit(n % 10)>>

----------------------------------------------------------------------------
(* JavaScript numbers as the code uses them: a number, NaN (parseFloat of an *)
(* empty field) or null                                                     *)

Num(n) == [kind |-> "num", v |-> n]
NaN == [kind |-> "nan", v |-> 0]
Null == [kind |-> "null", v |-> 0]

\* x > 0
GreaterThanZero(x) == x.kind = "num" /\ x.v > 0

\* the truthiness of a number or null
Truthy(x) == x.kind = "num" /\ x.v # 0

----------------------------------------------------------------------------
(* Inputs the user can submit *)

Str_a == <<"a">>
Str_download == <<"d","o","w","n","l","o","a","d">>

\* local files: File objects with a name and a declared media type
FileA == [name |-> <<"a",".","m","p","3">>, type |-> "audio/mpeg"]
FileB == [name |-> <<"b"," ","c",".","w","a","v">>, type |-> "audio/wav"]
FileTxt == [name |-> <<"n",".","t","x","t">>, type |-> "text/plain"]
FileUniverse == {FileA, FileB}

\* lines of the URL text area
UrlGood == <<"y","o","u","t","u",".","b","e","/","x">>
UrlBad == <<"x","/","y">>
UrlLineUniverse == {UrlGood}

\* the file name downloadAudio returns for a URL: the title the service
\* sends in Content-Disposition, 'download.mp3' without one; the video of
\* UrlGood is titled "a"
downloadFilename(url) ==
  IF url = UrlGood THEN Str_a \o DotMp3 ELSE Str_download \o DotMp3

\* values of the custom title field
TitleUniverse == {<<>>, <<"t">>}

\* values of the start and end time fields, in seconds
TrimUniverse == {<<Num(0), Num(0)>>, <<Num(2), Num(0)>>}

\* sequences of distinct elements of S of length 1..n
RECURSIVE DistinctSeqs(_, _)
DistinctSeqs(S, n) ==
  IF n = 0 THEN {}
  ELSE {<<x>> : x \in S} \cup
       UNION {{<<x>> \o u : u \in {t \in DistinctSeqs(S, n - 1) :
                                      \A k \in 1..Len(t) : t[k] # x}} :
              x \in S}

\* sequences of elements of S of length 0..n
RECURSIVE SeqsUpTo(_, _)
SeqsUpTo(S, n) ==
  IF n = 0 THEN {<<>>}
  ELSE {<<>>} \cup {<<x>> \o t : x \in S, t \in SeqsUpTo(S, n - 1)}

----------------------------------------------------------------------------
(* FileHandler *)

supportedFormats ==
  {"audio/mpeg", "audio/wav", "audio/x-wav", "audio/flac", "audio/x-flac",
   "audio/m4a", "audio/mp4", "audio/ogg", "audio/webm", "audio/aac"}

audioExtensions ==
  {<<"m","p","3">>, <<"w","a","v">>, <<"f","l","a","c">>, <<"m","4","a">>,
   <<"o","g","g">>, <<"w","e","b","m">>, <<"a","a","c">>,
   <<"o","p","u","s">>}

\* String.prototype.toLowerCase, on the letters the model's file names use
LowerChar(c) ==
  CASE c = "M" -> "m" [] c = "P" -> "p" [] c = "W" -> "w" [] c = "A" -> "a"
    [] c = "V" -> "v" [] OTHER -> c
ToLowerCase(s) == [k \in 1..Len(s) |-> LowerChar(s[k])]

\* name.split('.').pop(): what follows the last dot, or the whole name
LastDotPart(name) ==
  LET dots == {k \in 1..Len(name) : name[k] = "."}
  IN IF dots = {} THEN name
     ELSE LET k == CHOOSE n \in dots : \A m \in dots : m <= n
          IN SubSeq(name, k + 1, Len(name))

\* FileHandler.isAudioFile
isAudioFile(file) ==
  \/ file.type \in supportedFormats
  \/ ToLowerCase(LastDotPart(file.name)) \in audioExtensions

----------------------------------------------------------------------------
(* YouTubeDownloader *)

\* String.prototype.trim
RECURSIVE TrimLeft(_)
TrimLeft(s) ==
  IF s # <<>> /\ Head(s) \in SpaceChars THEN TrimLeft(Tail(s)) ELSE s
RECURSIVE TrimRight(_)
TrimRight(s) ==
  IF s # <<>> /\ s[Len(s)] \in SpaceChars
  THEN TrimRight(SubSeq(s, 1, Len(s) - 1)) ELSE s
Trim(s) == TrimRight(TrimLeft(s))

StartsWith(s, prefix) ==
  Len(s) >= Len(prefix) /\ SubSeq(s, 1, Len(prefix)) = prefix

\* /^(https?:\/\/)?(www\.)?(youtube\.com\/watch\?v=|youtu\.be\/).+/
isValidYouTubeUrl(url) ==
  \E scheme \in {<<>>, <<"h","t","t","p",":","/","/">>,
                 <<"h","t","t","p","s",":","/","/">>} :
    \E www \in {<<>>, <<"w","w","w",".">>} :
      \E host \in {<<"y","o","u","t","u","b","e",".","c","o","m","/",
                     "w","a","t","c","h","?","v","=">>,
                   <<"y","o","u","t","u",".","b","e","/">>} :
        /\ StartsWith(url, scheme \o www \o host)
        /\ Len(url) > Len(scheme \o www \o host)

\* parseUrls without the test of isValidYouTubeUrl
parseUrls_NoValidation(lines) ==
  SelectSeq([k \in 1..Len(lines) |-> Trim(lines[k])],
            LAMBDA line : line # <<>>)

\* YouTubeDownloader.parseUrls, on the lines of the text
parseUrls(lines) ==
  SelectSeq([k \in 1..Len(lines) |-> Trim(lines[k])],
            LAMBDA line : line # <<>> /\ isValidYouTubeUrl(line))

\* value.trim() is not empty
HasText(lines) == \E k \in 1..Len(lines) : Trim(lines[k]) # <<>>

----------------------------------------------------------------------------
(* AudioProcessor *)

\* the sample rate of decoded audio (the rate the FFmpeg fallback converts to)
DecodedSampleRate == 44100

\* PianoTranscription.sampleRate
RequiredSampleRate == 16000

\* an AudioBuffer: its length in frames, its rate and its channels; outside
\* says that it holds samples that were read outside the source's data
Buffer(length, sampleRate, channels, outside) ==
  [length |-> length, sampleRate |-> sampleRate,
   numberOfChannels |-> channels, outside |-> outside]

\* what decodeAudioData makes of a source's bytes when it succeeds: a local
\* file holds one second of mono, a download three seconds of stereo
decodeAudioData(source) ==
  IF source.type = "file"
  THEN Buffer(1 * DecodedSampleRate, DecodedSampleRate, 1, FALSE)
  ELSE Buffer(3 * DecodedSampleRate, DecodedSampleRate, 2, FALSE)

Thrown == [thrown |-> TRUE]

\* trimAudio that trims to the end of the buffer whatever endTime is
trimAudio_IgnoresEnd(buffer, start, end) ==
  LET startSample == IF start.kind = "num" THEN Num(start.v * buffer.sampleRate)
                     ELSE NaN
      trimmedLength == IF startSample.kind = "num"
                       THEN Num(buffer.length - startSample.v) ELSE NaN
  IN IF trimmedLength.kind # "num" \/ trimmedLength.v <= 0 THEN Thrown
     ELSE Buffer(trimmedLength.v, buffer.sampleRate, buffer.numberOfChannels,
                 buffer.outside \/ startSample.v < 0)

\* AudioProcessor.trimAudio; times are whole seconds, so Math.floor of
\* time * sampleRate is the product. createBuffer throws for a length that is
\* not a positive number.
trimAudio(buffer, start, end) ==
  LET startSample == IF start.kind = "num" THEN Num(start.v * buffer.sampleRate)
                     ELSE NaN
      endSample == IF Truthy(end) THEN end.v * buffer.sampleRate
                   ELSE buffer.length
      trimmedLength == IF startSample.kind = "num"
                       THEN Num(endSample - startSample.v) ELSE NaN
  IN IF trimmedLength.kind # "num" \/ trimmedLength.v <= 0 THEN Thrown
     ELSE Buffer(trimmedLength.v, buffer.sampleRate, buffer.numberOfChannels,
                 buffer.outside \/ startSample.v < 0
                   \/ endSample > buffer.length)

\* AudioProcessor.resampleAudio, when the rendering succeeds
resampleAudio(buffer, targetSampleRate) ==
  IF buffer.sampleRate = targetSampleRate THEN buffer
  ELSE Buffer((buffer.length * targetSampleRate) \div buffer.sampleRate,
              targetSampleRate, buffer.numberOfChannels, buffer.outside)

\* AudioProcessor.convertToMono
convertToMono(buffer) ==
  IF buffer.numberOfChannels = 1 THEN buffer
  ELSE Buffer(buffer.length, buffer.sampleRate, 1, buffer.outside)

----------------------------------------------------------------------------
(* UIController *)

\* updateConvertButton without the test of isProcessing
updateConvertButton_IgnoresProcessing(urlLines, fileCount, processing) ==
  ~(HasText(urlLines) \/ fileCount > 0)

\* UIController.updateConvertButton: the new value of convertBtn.disabled
updateConvertButton(urlLines, fileCount, processing) ==
  ~(HasText(urlLines) \/ fileCount > 0) \/ processing

\* UIController.getSettings: the fields startConversion reads for the
\* processing, and the fields downloadMIDI reads
getSettings ==
  [youtubeUrls |-> youtubeUrls, customTitle |-> customTitle,
   startTime |-> startTime, endTime |-> endTime]

getDownloadSettings == [zipOutput |-> zipOutput, includeMp3 |-> includeMp3]

NoSettings == [none |-> TRUE]
NoBuffer == [none |-> TRUE]
NoCancel == [none |-> TRUE]
NoFailure == [none |-> TRUE]
NoDownload == [none |-> TRUE]

----------------------------------------------------------------------------
(* main.js: startConversion.  A frame is the record of everything the      *)
(* function reads and writes; each operator below is a stretch of its code *)
(* and gives the frame at the next await or at its return.                 *)

Frame ==
  [pc |-> pc, settings |-> settings, urls |-> urls, files |-> files,
   audioSources |-> audioSources, i |-> i, results |-> results,
   audioBuffer |-> audioBuffer, errors |-> errors, stages |-> stages,
   called |-> called, lastFailure |-> lastFailure, log |-> log, outputMIDIPaths |-> outputMIDIPaths,
   cancelRequested |-> cancelRequested, isProcessing |-> isProcessing,
   convertBtnDisabled |-> convertBtnDisabled,
   cancelBtnDisabled |-> cancelBtnDisabled,
   downloadBtnShown |-> downloadBtnShown,
   model |-> model, modelLoaded |-> modelLoaded]

Resume(f) ==
  /\ pc' = f.pc /\ settings' = f.settings /\ urls' = f.urls
  /\ files' = f.files /\ audioSources' = f.audioSources /\ i' = f.i
  /\ results' = f.results /\ audioBuffer' = f.audioBuffer
  /\ errors' = f.errors /\ stages' = f.stages /\ called' = f.called
  /\ lastFailure' = f.lastFailure
  /\ log' = f.log /\ outputMIDIPaths' = f.outputMIDIPaths
  /\ cancelRequested' = f.cancelRequested /\ isProcessing' = f.isProcessing
  /\ convertBtnDisabled' = f.convertBtnDisabled
  /\ cancelBtnDisabled' = f.cancelBtnDisabled
  /\ downloadBtnShown' = f.downloadBtnShown
  /\ model' = f.model /\ modelLoaded' = f.modelLoaded

\* endConversion leaving the cancel button as it is
endConversion_LeavesCancel(f) ==
  [f EXCEPT !.isProcessing = FALSE,
            !.convertBtnDisabled =
               updateConvertButton(youtubeUrls, fileInputFiles, FALSE),
            !.audioBuffer = NoBuffer,
            !.stages = <<>>,
            !.pc = "idle"]

\* UIController.endConversion, and the return of startConversion
endConversion(f) ==
  [f EXCEPT !.isProcessing = FALSE,
            !.cancelBtnDisabled = TRUE,
            !.convertBtnDisabled =
               updateConvertButton(youtubeUrls, fileInputFiles, FALSE),
            !.audioBuffer = NoBuffer,
            !.stages = <<>>,
            !.pc = "idle"]

\* the outer catch and finally: an exception that no item's catch handles
failBatch(f) == endConversion([f EXCEPT !.log = @ \cup {"error"}])

\* "Handle outputs" showing the download button without results too
handleOutputs_AlwaysOffers(f) ==
  endConversion(
    IF Len(f.results) > 0
    THEN [f EXCEPT !.outputMIDIPaths = f.results,
                   !.downloadBtnShown = TRUE,
                   !.log = @ \cup {"allComplete"}]
    ELSE [f EXCEPT !.downloadBtnShown = TRUE,
                   !.log = @ \cup {"noneConverted"}])

\* "Handle outputs": the archive built here is a local that is dropped, only
\* its log lines remain
handleOutputs(f) ==
  endConversion(
    IF Len(f.results) > 0
    THEN [f EXCEPT !.outputMIDIPaths = f.results,
                   !.downloadBtnShown = TRUE,
                   !.log = @ \cup {"allComplete"}]
    ELSE [f EXCEPT !.log = @ \cup {"noneConverted"}])

\* processLoop with a loop bound that is one short
processLoop_OneShort(f, k) ==
  IF k < Len(f.audioSources) - 1
  THEN IF f.cancelRequested
       THEN handleOutputs([f EXCEPT !.i = k, !.log = @ \cup {"cancelled"}])
       ELSE [f EXCEPT !.i = k, !.pc = "loadAudio",
                      !.audioBuffer = NoBuffer,
                      !.stages = <<"loadAudio">>,
                      !.called = @ \cup {"loadAudio"}]
  ELSE handleOutputs([f EXCEPT !.i = k])

\* processLoop without the test of cancelRequested
processLoop_NoCancelCheck(f, k) ==
  IF k < Len(f.audioSources)
  THEN [f EXCEPT !.i = k, !.pc = "loadAudio",
                 !.audioBuffer = NoBuffer,
                 !.stages = <<"loadAudio">>,
                 !.called = @ \cup {"loadAudio"}]
  ELSE handleOutputs([f EXCEPT !.i = k])

\* the head of the processing loop for index k, up to the await of loadAudio
processLoop(f, k) ==
  IF k < Len(f.audioSources)
  THEN IF f.cancelRequested
       THEN handleOutputs([f EXCEPT !.i = k, !.log = @ \cup {"cancelled"}])
       ELSE [f EXCEPT !.i = k, !.pc = "loadAudio",
                      !.audioBuffer = NoBuffer,
                      !.stages = <<"loadAudio">>,
                      !.called = @ \cup {"loadAudio"}]
  ELSE handleOutputs([f EXCEPT !.i = k])

\* a stage of the item in flight throws (noted as an observation)
threw(f, stage) == [f EXCEPT !.lastFailure = [index |-> f.i, stage |-> stage]]

\* failItem that goes back to the item that failed
failItem_Retries(f) ==
  processLoop([f EXCEPT !.errors = Append(@, [index |-> f.i,
                           name |-> f.audioSources[f.i + 1].name])],
              f.i)

\* failItem as if the try enclosed the loop: a failure ends the batch
failItem_EndsBatch(f) == failBatch(f)

\* the catch of one item: 'Failed to process ${source.name}', and the step
\* to the next item
failItem(f) ==
  processLoop(
    [f EXCEPT !.errors = Append(@, [index |-> f.i,
                                    name |-> f.audioSources[f.i + 1].name])],
    f.i + 1)

\* from the decoded buffer to the await of resampleAudio
afterLoadAudio(f, decoded) ==
  LET trimming == GreaterThanZero(f.settings.startTime)
                    \/ GreaterThanZero(f.settings.endTime)
      trimmed == IF trimming
                 THEN trimAudio(decoded, f.settings.startTime,
                                IF GreaterThanZero(f.settings.endTime)
                                THEN f.settings.endTime ELSE Null)
                 ELSE decoded
      g == IF trimming
           THEN [f EXCEPT !.stages = Append(@, "trimAudio"),
                          !.called = @ \cup {"trimAudio"}]
           ELSE f
  IN IF trimmed = Thrown THEN failItem(threw(g, "trimAudio"))
     ELSE [g EXCEPT !.audioBuffer = trimmed,
                    !.stages = Append(@, "resampleAudio"),
                    !.called = @ \cup {"resampleAudio"},
                    !.pc = "resampleAudio"]

\* afterResample handing on the resampled buffer without the mono fold
afterResample_NoMonoFold(f, resampled) ==
  LET g == [f EXCEPT !.audioBuffer = resampled,
                     !.stages = @ \o <<"getAudioSamples", "transcribe">>,
                     !.called = @ \cup {"transcribe"}]
  IN IF ~g.modelLoaded
     THEN [g EXCEPT !.model = "created",
                    !.called = @ \cup {"initialize"},
                    !.pc = "initialize"]
     ELSE [g EXCEPT !.pc = "transcribe"]

\* afterResample with a test of cancelRequested between the stages
afterResample_ChecksCancel(f, resampled) ==
  IF f.cancelRequested
  THEN handleOutputs([f EXCEPT !.log = @ \cup {"cancelled"}])
  ELSE LET g == [f EXCEPT !.audioBuffer = convertToMono(resampled),
                          !.stages = @ \o <<"getAudioSamples", "transcribe">>,
                          !.called = @ \cup {"transcribe"}]
       IN IF ~g.modelLoaded
          THEN [g EXCEPT !.model = "created",
                         !.called = @ \cup {"initialize"},
                         !.pc = "initialize"]
          ELSE [g EXCEPT !.pc = "transcribe"]

\* from the resampled buffer into transcribe: to the await of the model's
\* load when the model is not loaded, else to the await of the inference
afterResample(f, resampled) ==
  LET g == [f EXCEPT !.audioBuffer = convertToMono(resampled),
                     !.stages = @ \o <<"getAudioSamples", "transcribe">>,
                     !.called = @ \cup {"transcribe"}]
  IN IF ~g.modelLoaded
     THEN [g EXCEPT !.model = "created",
                    !.called = @ \cup {"initialize"},
                    !.pc = "initialize"]
     ELSE [g EXCEPT !.pc = "transcribe"]

\* PianoTranscription.initialize after the model has loaded
afterInitialize(f) ==
  [f EXCEPT !.modelLoaded = TRUE, !.pc = "transcribe"]

\* "Determine filename"
outputFilename(title, sourceCount, index, sourceName) ==
  sanitizeFilename(
    IF title # <<>> /\ sourceCount = 1 THEN title
    ELSE IF title # <<>> /\ sourceCount > 1
         THEN title \o <<"_">> \o NumberToString(index + 1)
         ELSE sourceName)

\* afterTranscribe numbering the output by the results so far
afterTranscribe_CountsResults(f) ==
  LET source == f.audioSources[f.i + 1]
      result == [midiData |-> <<"midi", f.i>>,
                 filename |-> outputFilename(f.settings.customTitle,
                                             Len(f.audioSources),
                                             Len(f.results), source.name),
                 audioBuffer |-> source.buffer,
                 index |-> f.i,
                 stages |-> Append(f.stages, "generateMIDI")]
  IN processLoop([f EXCEPT !.results = Append(@, result),
                           !.called = @ \cup {"generateMIDI"}],
                 f.i + 1)

\* from the note sequence to the next item
afterTranscribe(f) ==
  LET source == f.audioSources[f.i + 1]
      result == [midiData |-> <<"midi", f.i>>,
                 filename |-> outputFilename(f.settings.customTitle,
                                             Len(f.audioSources), f.i,
                                             source.name),
                 audioBuffer |-> source.buffer,
                 index |-> f.i,
                 stages |-> Append(f.stages, "generateMIDI")]
  IN processLoop([f EXCEPT !.results = Append(@, result),
                           !.called = @ \cup {"generateMIDI"}],
                 f.i + 1)

\* afterAcquire without the test for an empty source list
afterAcquire_NoEmptyTest(f) == processLoop([f EXCEPT !.results = <<>>], 0)

\* after the sources are gathered: "No audio sources provided!" or the loop
afterAcquire(f) ==
  IF Len(f.audioSources) = 0
  THEN endConversion([f EXCEPT !.log = @ \cup {"noSources"}])
  ELSE processLoop([f EXCEPT !.results = <<>>], 0)

\* the loop over the selected files, at index k, up to the await of the read
readLoop(f, k) ==
  IF k < Len(f.files) /\ ~f.cancelRequested
  THEN [f EXCEPT !.i = k, !.pc = "readFile",
                 !.called = @ \cup {"readFile"}]
  ELSE afterAcquire(f)

\* "Get local files"
getLocalFiles(f) == readLoop([f EXCEPT !.files = selectedFiles], 0)

\* downloadLoop without the test of cancelRequested
downloadLoop_NoCancelCheck(f, k) ==
  IF k < Len(f.urls)
  THEN [f EXCEPT !.i = k, !.pc = "downloadAudio",
                 !.called = @ \cup {"downloadAudio"}]
  ELSE getLocalFiles(f)

\* the loop over the URLs, at index k, up to the await of downloadAudio
downloadLoop(f, k) ==
  IF k < Len(f.urls) /\ ~f.cancelRequested
  THEN [f EXCEPT !.i = k, !.pc = "downloadAudio",
                 !.called = @ \cup {"downloadAudio"}]
  ELSE getLocalFiles(f)

\* the start of startConversion without the reset of outputMIDIPaths
beginConversion_KeepsOutputs(f) ==
  LET s == getSettings
      g == [f EXCEPT !.cancelRequested = FALSE,
                     !.isProcessing = TRUE,
                     !.convertBtnDisabled = TRUE,
                     !.cancelBtnDisabled = FALSE,
                     !.downloadBtnShown = FALSE,
                     !.log = {"starting"},
                     !.settings = s,
                     !.audioSources = <<>>,
                     !.urls = <<>>, !.files = <<>>, !.results = <<>>,
                     !.errors = <<>>, !.stages = <<>>, !.called = {},
                     !.lastFailure = NoFailure,
                     !.audioBuffer = NoBuffer, !.i = 0]
  IN IF HasText(s.youtubeUrls)
     THEN downloadLoop([g EXCEPT !.urls = parseUrls(s.youtubeUrls)], 0)
     ELSE getLocalFiles(g)

\* the start of startConversion, with UIController.startConversion
beginConversion(f) ==
  LET s == getSettings
      g == [f EXCEPT !.cancelRequested = FALSE,
                     !.outputMIDIPaths = <<>>,
                     !.isProcessing = TRUE,
                     !.convertBtnDisabled = TRUE,
                     !.cancelBtnDisabled = FALSE,
                     !.downloadBtnShown = FALSE,
                     !.log = {"starting"},
                     !.settings = s,
                     !.audioSources = <<>>,
                     !.urls = <<>>, !.files = <<>>, !.results = <<>>,
                     !.errors = <<>>, !.stages = <<>>, !.called = {},
                     !.lastFailure = NoFailure,
                     !.audioBuffer = NoBuffer, !.i = 0]
  IN IF HasText(s.youtubeUrls)
     THEN downloadLoop([g EXCEPT !.urls = parseUrls(s.youtubeUrls)], 0)
     ELSE getLocalFiles(g)

----------------------------------------------------------------------------
(* Initial state: the objects as their constructors leave them, the form   *)
(* empty; index.html is not part of the sources, so the markup's initial   *)
(* state of the three buttons is left open                                 *)

NotCalled == [called |-> FALSE, value |-> <<>>]

\* no request has reached the download function
NoRequest == [at |-> "none"]

\* new PianoTranscription(): model null (0), modelLoaded false.  A model
\* instance is named by its number among the instances constructed; at is
\* the await a call is suspended at; returned is what the last completed
\* initialize() returned; calls, failed and disposed count the calls made,
\* the loads that failed and the models disposed of
NewAdapter ==
  [model |-> 0, modelLoaded |-> FALSE, constructed |-> 0, at |-> "idle",
   returned |-> 0, calls |-> 0, failed |-> 0, disposed |-> 0]

InitProgram ==
  /\ youtubeUrls = <<>> /\ customTitle = <<>>
  /\ startTime = Num(0) /\ endTime = Num(0)
  /\ zipOutput = FALSE /\ keepMp3 = FALSE /\ keepMp3Disabled = FALSE
  /\ includeMp3 = FALSE /\ fileInputFiles = 0
  /\ convertBtnDisabled \in BOOLEAN
  /\ cancelBtnDisabled \in BOOLEAN
  /\ downloadBtnShown \in BOOLEAN
  /\ log = {"ready"}
  /\ isProcessing = FALSE /\ selectedFiles = <<>>
  /\ model = "null" /\ modelLoaded = FALSE
  /\ outputMIDIPaths = <<>> /\ cancelRequested = FALSE
  /\ pc = "idle" /\ settings = NoSettings /\ urls = <<>> /\ files = <<>>
  /\ audioSources = <<>> /\ i = 0 /\ results = <<>>
  /\ audioBuffer = NoBuffer
  /\ errors = <<>> /\ stages = <<>> /\ called = {}
  /\ lastFailure = NoFailure
  /\ cancelAt = NoCancel /\ saved = NoDownload

Init == InitProgram /\ fnArg = <<>> /\ fnRet = NotCalled /\ adapter = NewAdapter /\ handler = NoRequest

\* the program before any event, the three buttons as a page at rest shows
\* them
ProgramAtRest ==
  /\ InitProgram
  /\ convertBtnDisabled /\ cancelBtnDisabled /\ ~downloadBtnShown

----------------------------------------------------------------------------
(* The user fills in the form.  The model lets the user edit the text      *)
(* fields and the file selection only before the first conversion; later   *)
(* conversions run on the same form.                                       *)

FormOpen == "starting" \notin log /\ ~isProcessing

formVars == <<youtubeUrls, customTitle, startTime, endTime, zipOutput,
              keepMp3, keepMp3Disabled, includeMp3, fileInputFiles>>
restOfFrame == <<pc, settings, urls, files, audioSources, i, results,
                 audioBuffer, errors, stages, called, lastFailure,
                 outputMIDIPaths,
                 cancelRequested, isProcessing, model, modelLoaded>>

\* the 'input' listener of the URL text area
urlsInput ==
  /\ \E lines \in SeqsUpTo(UrlLineUniverse, MaxInputs - Len(selectedFiles)) :
       /\ lines # youtubeUrls
       /\ youtubeUrls' = lines
       /\ convertBtnDisabled' =
            updateConvertButton(lines, fileInputFiles, isProcessing)
  /\ UNCHANGED <<customTitle, startTime, endTime, zipOutput, keepMp3,
                 keepMp3Disabled, includeMp3, fileInputFiles,
                 cancelBtnDisabled, downloadBtnShown, log, selectedFiles,
                 restOfFrame, cancelAt, saved, fnVars>>

InputUrls == FormOpen /\ urlsInput

\* FileHandler.handleFiles with the callback (files) => ui.showFileInfo(files);
\* fileCount is fileInput.files.length when the callback runs
handleFiles(submitted, fileCount) ==
  LET audioFiles == SelectSeq(submitted, isAudioFile)
  IN IF Len(audioFiles) = 0
     THEN UNCHANGED <<selectedFiles, convertBtnDisabled>>
     ELSE /\ selectedFiles' = audioFiles
          /\ convertBtnDisabled' =
               updateConvertButton(youtubeUrls, fileCount, isProcessing)

\* the 'change' listener of the file input: the user browsed for files
filesChanged ==
  /\ \E submitted \in DistinctSeqs(FileUniverse,
                                   MaxInputs - Len(youtubeUrls)) :
       /\ fileInputFiles' = Len(submitted)
       /\ handleFiles(submitted, Len(submitted))
  /\ UNCHANGED <<youtubeUrls, customTitle, startTime, endTime, zipOutput,
                 keepMp3, keepMp3Disabled, includeMp3, cancelBtnDisabled,
                 downloadBtnShown, log, restOfFrame, cancelAt, saved, fnVars>>

BrowseFiles == FormOpen /\ filesChanged

\* the 'drop' listener of the upload zone
filesDropped ==
  /\ \E submitted \in DistinctSeqs(FileUniverse,
                                   MaxInputs - Len(youtubeUrls)) :
       handleFiles(submitted, fileInputFiles)
  /\ UNCHANGED <<formVars, cancelBtnDisabled, downloadBtnShown, log,
                 restOfFrame, cancelAt, saved, fnVars>>

DropFiles == FormOpen /\ filesDropped

\* the user types a custom title
SetCustomTitle ==
  /\ FormOpen
  /\ \E title \in TitleUniverse : title # customTitle /\ customTitle' = title
  /\ UNCHANGED <<youtubeUrls, startTime, endTime, zipOutput, keepMp3,
                 keepMp3Disabled, includeMp3, fileInputFiles,
                 convertBtnDisabled, cancelBtnDisabled, downloadBtnShown, log,
                 selectedFiles, restOfFrame, cancelAt, saved, fnVars>>

\* the user sets the trim range
SetTrim ==
  /\ FormOpen
  /\ \E range \in TrimUniverse :
       /\ range # <<startTime, endTime>>
       /\ startTime' = range[1] /\ endTime' = range[2]
  /\ UNCHANGED <<youtubeUrls, customTitle, zipOutput, keepMp3,
                 keepMp3Disabled, includeMp3, fileInputFiles,
                 convertBtnDisabled, cancelBtnDisabled, downloadBtnShown, log,
                 selectedFiles, restOfFrame, cancelAt, saved, fnVars>>

\* The checkboxes.  A change while a conversion runs is read by no code
\* before the conversion ends, so the model lets them change only between
\* conversions.

\* the user toggles "ZIP output"; its listener only shows or hides a field
ToggleZipOutput ==
  /\ ~isProcessing
  /\ zipOutput' = ~zipOutput
  /\ UNCHANGED <<youtubeUrls, customTitle, startTime, endTime, keepMp3,
                 keepMp3Disabled, includeMp3, fileInputFiles,
                 convertBtnDisabled, cancelBtnDisabled, downloadBtnShown, log,
                 selectedFiles, restOfFrame, cancelAt, saved, fnVars>>

\* the 'change' listener of keepMp3 (a disabled checkbox cannot be toggled)
ToggleKeepMp3 ==
  /\ ~isProcessing
  /\ ~keepMp3Disabled
  /\ keepMp3' = ~keepMp3
  /\ includeMp3' = IF keepMp3' THEN includeMp3 ELSE FALSE
  /\ UNCHANGED <<youtubeUrls, customTitle, startTime, endTime, zipOutput,
                 keepMp3Disabled, fileInputFiles,
                 convertBtnDisabled, cancelBtnDisabled, downloadBtnShown, log,
                 selectedFiles, restOfFrame, cancelAt, saved, fnVars>>

\* the 'change' listener of includeMp3 without the auto-check of keepMp3
ToggleIncludeMp3_NoAutoKeep ==
  /\ ~isProcessing
  /\ includeMp3' = ~includeMp3
  /\ UNCHANGED <<youtubeUrls, customTitle, startTime, endTime, zipOutput,
                 keepMp3, keepMp3Disabled, fileInputFiles,
                 convertBtnDisabled, cancelBtnDisabled, downloadBtnShown, log,
                 selectedFiles, restOfFrame, cancelAt, saved, fnVars>>

\* the 'change' listener of includeMp3 checking keepMp3 without locking it
ToggleIncludeMp3_NoLock ==
  /\ ~isProcessing
  /\ includeMp3' = ~includeMp3
  /\ IF includeMp3'
     THEN keepMp3' = TRUE /\ UNCHANGED keepMp3Disabled
     ELSE keepMp3Disabled' = FALSE /\ UNCHANGED keepMp3
  /\ UNCHANGED <<youtubeUrls, customTitle, startTime, endTime, zipOutput,
                 fileInputFiles,
                 convertBtnDisabled, cancelBtnDisabled, downloadBtnShown, log,
                 selectedFiles, restOfFrame, cancelAt, saved, fnVars>>

\* the 'change' listener of includeMp3
ToggleIncludeMp3 ==
  /\ ~isProcessing
  /\ includeMp3' = ~includeMp3
  /\ IF includeMp3'
     THEN keepMp3' = TRUE /\ keepMp3Disabled' = TRUE
     ELSE keepMp3Disabled' = FALSE /\ UNCHANGED keepMp3
  /\ UNCHANGED <<youtubeUrls, customTitle, startTime, endTime, zipOutput,
                 fileInputFiles,
                 convertBtnDisabled, cancelBtnDisabled, downloadBtnShown, log,
                 selectedFiles, restOfFrame, cancelAt, saved, fnVars>>

----------------------------------------------------------------------------
(* The handlers of the three buttons *)

\* a click on Convert: startConversion up to its first await (or its return)
ClickConvert ==
  /\ ~convertBtnDisabled
  /\ pc = "idle"
  /\ Resume(beginConversion(Frame))
  /\ cancelAt' = NoCancel
  /\ saved' = NoDownload
  /\ UNCHANGED <<formVars, selectedFiles, fnVars>>

\* the part of startConversion an await belongs to
Phase(at) ==
  IF at = "idle" THEN "idle"
  ELSE IF at \in {"downloadAudio", "readFile"} THEN "acquire" ELSE "item"

\* a click on Cancel: cancelConversion
ClickCancel ==
  /\ ~cancelBtnDisabled
  /\ cancelRequested' = TRUE
  /\ log' = log \cup {"cancelling"}
  /\ cancelBtnDisabled' = TRUE
  /\ cancelAt' = [phase |-> Phase(pc), i |-> i]
  /\ UNCHANGED <<formVars, convertBtnDisabled, downloadBtnShown,
                 isProcessing, selectedFiles, model, modelLoaded,
                 outputMIDIPaths, frameVars, errors, stages, called,
                 lastFailure, saved, fnVars>>

\* JSZip.file(name, data): an entry of that name is replaced
ZipFile(zip, name, data) ==
  [n \in (DOMAIN zip) \cup {name} |-> IF n = name THEN data ELSE zip[n]]

EmptyZip == [n \in {} |-> <<>>]

\* the archive downloadMIDI builds: the MIDI files, then the audio files
RECURSIVE AddMidiFiles(_, _)
AddMidiFiles(zip, list) ==
  IF list = <<>> THEN zip
  ELSE AddMidiFiles(ZipFile(zip, Head(list).filename, Head(list).midiData),
                    Tail(list))

\* the name of a result's audio entry
audioName(filename) == ReplaceFirst(filename, DotMid, DotMp3)

RECURSIVE AddAudioFiles(_, _)
AddAudioFiles(zip, list) ==
  IF list = <<>> THEN zip
  ELSE AddAudioFiles(ZipFile(zip, audioName(Head(list).filename),
                             Head(list).audioBuffer),
                     Tail(list))

buildZip(list, withAudio) ==
  IF withAudio THEN AddAudioFiles(AddMidiFiles(EmptyZip, list), list)
  ELSE AddMidiFiles(EmptyZip, list)

\* MIDIGenerator.saveMIDI: the saveAs call it makes
saveMIDI(midiData, filename) ==
  [kind |-> "midi", name |-> sanitizeFilename(filename), data |-> midiData]

\* the zipFilename field is left empty in the model
DefaultZipName == <<"m","i","d","i","_","f","i","l","e","s">>

\* downloadMIDI testing the archive option before the single result
downloadMIDI_ArchiveFirst(list, s) ==
  IF Len(list) = 0 THEN <<>>
  ELSE IF s.zipOutput
       THEN <<[kind |-> "zip",
               name |-> sanitizeFilename(DefaultZipName) \o DotZip,
               data |-> buildZip(list, s.includeMp3)]>>
       ELSE [k \in 1..Len(list) |->
               saveMIDI(list[k].midiData, list[k].filename)]

\* downloadMIDI: the saveAs calls it makes, in order, for the results in
\* list and the settings s it reads when it runs
downloadMIDI(list, s) ==
  IF Len(list) = 0 THEN <<>>
  ELSE IF Len(list) = 1 THEN <<saveMIDI(list[1].midiData, list[1].filename)>>
  ELSE IF s.zipOutput
       THEN <<[kind |-> "zip",
               name |-> sanitizeFilename(DefaultZipName) \o DotZip,
               data |-> buildZip(list, s.includeMp3)]>>
       ELSE [k \in 1..Len(list) |->
               saveMIDI(list[k].midiData, list[k].filename)]

\* a click on Download
ClickDownload ==
  /\ downloadBtnShown
  /\ saved' = [calls |-> downloadMIDI(outputMIDIPaths, getDownloadSettings),
               settings |-> getDownloadSettings]
  /\ log' = IF Len(outputMIDIPaths) = 0 THEN log \cup {"noFilesToDownload"}
            ELSE log
  /\ UNCHANGED <<formVars, convertBtnDisabled, cancelBtnDisabled,
                 downloadBtnShown, objVars, frameVars, errors, stages,
                 called, lastFailure, cancelAt, fnVars>>

----------------------------------------------------------------------------
(* The continuations of startConversion: an awaited operation returns or   *)
(* throws                                                                  *)

untouched == <<formVars, selectedFiles, cancelAt, saved, fnVars>>

Source(name, type) ==
  [buffer |-> <<"audio", Len(audioSources)>>, name |-> name, type |-> type]

DownloadAudioDone ==
  /\ pc = "downloadAudio"
  /\ Resume(downloadLoop(
       [Frame EXCEPT !.audioSources =
          Append(@, Source(ReplaceFirst(downloadFilename(urls[i + 1]),
                                        DotMp3, <<>>),
                           "youtube"))],
       i + 1))
  /\ UNCHANGED untouched

\* DownloadAudioFailed as if the rejected download reached the outer catch
DownloadAudioFailed_EndsBatch ==
  /\ pc = "downloadAudio"
  /\ Resume(failBatch(Frame))
  /\ UNCHANGED untouched

DownloadAudioFailed ==
  /\ pc = "downloadAudio"
  /\ Resume(downloadLoop([Frame EXCEPT !.log = @ \cup {"downloadFailed"}],
                         i + 1))
  /\ UNCHANGED untouched

ReadFileDone ==
  /\ pc = "readFile"
  /\ Resume(readLoop(
       [Frame EXCEPT !.audioSources =
          Append(@, Source(getFileNameWithoutExtension(files[i + 1].name),
                           "file"))],
       i + 1))
  /\ UNCHANGED untouched

\* a rejected read is caught by no inner try: the outer catch ends the batch
ReadFileFailed ==
  /\ pc = "readFile"
  /\ Resume(failBatch(Frame))
  /\ UNCHANGED untouched

LoadAudioDone ==
  /\ pc = "loadAudio"
  /\ Resume(afterLoadAudio(Frame, decodeAudioData(audioSources[i + 1])))
  /\ UNCHANGED untouched

LoadAudioFailed ==
  /\ pc = "loadAudio"
  /\ Resume(failItem(threw(Frame, "loadAudio")))
  /\ UNCHANGED untouched

ResampleDone ==
  /\ pc = "resampleAudio"
  /\ Resume(afterResample(Frame,
                          resampleAudio(audioBuffer, RequiredSampleRate)))
  /\ UNCHANGED untouched

ResampleFailed ==
  /\ pc = "resampleAudio"
  /\ Resume(failItem(threw(Frame, "resampleAudio")))
  /\ UNCHANGED untouched

InitializeDone ==
  /\ pc = "initialize"
  /\ Resume(afterInitialize(Frame))
  /\ UNCHANGED untouched

\* InitializeFailed as if the failed load were thrown past the item's catch
InitializeFailed_EndsBatch ==
  /\ pc = "initialize"
  /\ Resume(failBatch(threw(Frame, "initialize")))
  /\ UNCHANGED untouched

\* 'Model initialization failed': thrown out of transcribe into the item's
\* catch; this.model stays set and modelLoaded stays false
InitializeFailed ==
  /\ pc = "initialize"
  /\ Resume(failItem(threw(Frame, "initialize")))
  /\ UNCHANGED untouched

TranscribeDone ==
  /\ pc = "transcribe"
  /\ Resume(afterTranscribe(Frame))
  /\ UNCHANGED untouched

TranscribeFailed ==
  /\ pc = "transcribe"
  /\ Resume(failItem(threw(Frame, "transcribe")))
  /\ UNCHANGED untouched

----------------------------------------------------------------------------

Next ==
  \/ InputUrls \/ BrowseFiles \/ DropFiles \/ SetCustomTitle \/ SetTrim
  \/ ToggleZipOutput \/ ToggleKeepMp3 \/ ToggleIncludeMp3
  \/ ClickConvert \/ ClickCancel \/ ClickDownload
  \/ DownloadAudioDone \/ DownloadAudioFailed
  \/ ReadFileDone \/ ReadFileFailed
  \/ LoadAudioDone \/ LoadAudioFailed
  \/ ResampleDone \/ ResampleFailed
  \/ InitializeDone \/ InitializeFailed
  \/ TranscribeDone \/ TranscribeFailed

Spec == Init /\ [][Next]_vars

----------------------------------------------------------------------------
(* The filename sanitizer on its own: sanitizeFilename applied to every    *)
(* short string over an alphabet with a member of each character class,    *)
(* with and without the '.mid' suffix, alone and behind a long run of      *)
(* letters that brings the name to the 200-character cut                   *)

SanitizeAlphabet == {"a", ".", " ", "-", "!"}

Repeat(c, n) == [k \in 1..n |-> c]

\* lengths of the run of letters in front: none, and around the cut
PadLengths ==
  {0, MaxFilenameLength - Len(DotMid) - 1, MaxFilenameLength - 1}

SanitizeInputs ==
  {Repeat("a", n) \o body \o suffix :
     n \in PadLengths,
     body \in SeqsUpTo(SanitizeAlphabet, MaxNameLen),
     suffix \in {<<>>, DotMid}}

InitSanitize ==
  /\ InitProgram
  /\ convertBtnDisabled /\ cancelBtnDisabled /\ ~downloadBtnShown
  /\ fnArg \in SanitizeInputs
  /\ fnRet = NotCalled
  /\ adapter = NewAdapter /\ handler = NoRequest

CallSanitizeFilename ==
  /\ ~fnRet.called
  /\ fnRet' = [called |-> TRUE, value |-> sanitizeFilename(fnArg)]
  /\ UNCHANGED <<domVars, objVars, frameVars, obsVars, fnArg, adapter,
                 handler>>

NextSanitize == CallSanitizeFilename

SpecSanitize == InitSanitize /\ [][NextSanitize]_vars

\* both sanitizers of the repository, the one of MIDIGenerator and the one
\* of the download function, on the same inputs; by names the one called
CallSanitizer ==
  /\ ~fnRet.called
  /\ \E by \in {"MIDIGenerator", "api"} :
       fnRet' = [called |-> TRUE,
                 value |-> IF by = "api" THEN apiSanitizeFilename(fnArg)
                           ELSE sanitizeFilename(fnArg),
                 by |-> by]
  /\ UNCHANGED <<domVars, objVars, frameVars, obsVars, fnArg, adapter,
                 handler>>

NextSanitizers == CallSanitizer

SpecSanitizers == InitSanitize /\ [][NextSanitizers]_vars

-----------------------------------------------------------------------------
(* MIDIGenerator.generateMIDI on its own.  Times are whole ticks; a note    *)
(* sequence is the notes array of a NoteSequence; the MIDI file is modelled *)
(* by the track.addNote calls that build it, in order.                      *)

\* notes in a note sequence
MaxNotes == 3

\* x <= m for a number x and m a number, NaN or null
LessOrEqual(x, m) ==
  IF m.kind = "num" THEN x <= m.v
  ELSE IF m.kind = "null" THEN x <= 0
  ELSE FALSE

\* filterByDuration with a strict comparison
filterByDuration_Strict(notes, maxDuration) ==
  SelectSeq(notes,
            LAMBDA note : note.endTime - note.startTime < maxDuration.v)

\* MIDIGenerator.filterByDuration
filterByDuration(notes, maxDuration) ==
  SelectSeq(notes,
            LAMBDA note :
              LessOrEqual(note.endTime - note.startTime, maxDuration))

\* the argument of track.addNote for a note
addNote(note) ==
  [midi |-> note.pitch, time |-> note.startTime,
   duration |-> note.endTime - note.startTime]

\* MIDIGenerator.generateMIDI
generateMIDI(notes, options) ==
  LET kept == IF options.enableMaxNotesFilter
                   /\ options.maxNoteDuration # Null
               THEN filterByDuration(notes, options.maxNoteDuration)
               ELSE notes
  IN [k \in 1..Len(kept) |-> addNote(kept[k])]

Note(pitch, from, to) ==
  [pitch |-> pitch, startTime |-> from, endTime |-> to]

\* notes of durations 1, 2, 2 and 3, told apart by their pitch
NoteUniverse ==
  {Note(60, 0, 1), Note(61, 0, 2), Note(62, 2, 4), Note(63, 1, 4)}

\* settings.maxNotes, a parseFloat: a number or NaN; null is the default of
\* generateMIDI's option
MaxDurationUniverse == {Num(1), Num(2), NaN, Null}

InitFilter ==
  /\ ProgramAtRest
  /\ fnArg \in [notes : SeqsUpTo(NoteUniverse, MaxNotes),
                 maxNoteDuration : MaxDurationUniverse,
                 enableMaxNotesFilter : BOOLEAN]
  /\ fnRet = NotCalled
  /\ adapter = NewAdapter /\ handler = NoRequest

CallGenerateMIDI ==
  /\ ~fnRet.called
  /\ fnRet' = [called |-> TRUE,
               value |-> generateMIDI(fnArg.notes,
                           [maxNoteDuration |-> fnArg.maxNoteDuration,
                            enableMaxNotesFilter |->
                              fnArg.enableMaxNotesFilter])]
  /\ UNCHANGED <<domVars, objVars, frameVars, obsVars, fnArg, adapter,
                 handler>>

NextFilter == CallGenerateMIDI

SpecFilter == InitFilter /\ [][NextFilter]_vars

-----------------------------------------------------------------------------
(* AudioProcessor.trimAudio on its own *)

\* seconds of the trim times; buffers run one second longer
MaxTrimSeconds == 2

\* startTime: a number of seconds or NaN
TrimStartUniverse == {Num(t) : t \in 0..MaxTrimSeconds} \cup {NaN}

\* endTime: a number of seconds, NaN, or null (the default, and what
\* startConversion passes for an end time that is not above 0)
TrimEndUniverse == TrimStartUniverse \cup {Null}

\* decoded audio of 1 to MaxTrimSeconds + 1 seconds, mono or stereo
TrimBufferUniverse ==
  {Buffer(t * DecodedSampleRate, DecodedSampleRate, c, FALSE) :
     t \in 1..(MaxTrimSeconds + 1), c \in {1, 2}}

InitTrim ==
  /\ ProgramAtRest
  /\ fnArg \in [buffer : TrimBufferUniverse,
                 startTime : TrimStartUniverse,
                 endTime : TrimEndUniverse]
  /\ fnRet = NotCalled
  /\ adapter = NewAdapter /\ handler = NoRequest

CallTrimAudio ==
  /\ ~fnRet.called
  /\ fnRet' = [called |-> TRUE,
               value |-> trimAudio(fnArg.buffer, fnArg.startTime,
                                   fnArg.endTime)]
  /\ UNCHANGED <<domVars, objVars, frameVars, obsVars, fnArg, adapter,
                 handler>>

NextTrim == CallTrimAudio

SpecTrim == InitTrim /\ [][NextTrim]_vars

-----------------------------------------------------------------------------
(* startConversion and downloadMIDI under every configuration of the audio *)
(* options that getSettings can return: two files are selected, and the    *)
(* 'keep' and 'include' boxes start in any state                           *)

InitConfig ==
  /\ youtubeUrls = <<>> /\ customTitle = <<>>
  /\ startTime = Num(0) /\ endTime = Num(0)
  /\ zipOutput \in BOOLEAN
  /\ keepMp3 \in BOOLEAN /\ includeMp3 \in BOOLEAN
  /\ keepMp3Disabled = FALSE
  /\ selectedFiles = <<FileA, FileB>> /\ fileInputFiles = 2
  /\ convertBtnDisabled = FALSE
  /\ cancelBtnDisabled = TRUE /\ downloadBtnShown = FALSE
  /\ log = {"ready"}
  /\ isProcessing = FALSE
  /\ model = "null" /\ modelLoaded = FALSE
  /\ outputMIDIPaths = <<>> /\ cancelRequested = FALSE
  /\ pc = "idle" /\ settings = NoSettings /\ urls = <<>> /\ files = <<>>
  /\ audioSources = <<>> /\ i = 0 /\ results = <<>>
  /\ audioBuffer = NoBuffer
  /\ errors = <<>> /\ stages = <<>> /\ called = {}
  /\ lastFailure = NoFailure
  /\ cancelAt = NoCancel /\ saved = NoDownload
  /\ fnArg = <<>> /\ fnRet = NotCalled /\ adapter = NewAdapter /\ handler = NoRequest

NextConfig ==
  \/ ToggleZipOutput \/ ToggleKeepMp3 \/ ToggleIncludeMp3
  \/ ClickConvert \/ ClickCancel \/ ClickDownload
  \/ ReadFileDone \/ ReadFileFailed
  \/ LoadAudioDone \/ LoadAudioFailed
  \/ ResampleDone \/ ResampleFailed
  \/ InitializeDone \/ InitializeFailed
  \/ TranscribeDone \/ TranscribeFailed

SpecConfig == InitConfig /\ [][NextConfig]_vars

-----------------------------------------------------------------------------
(* The URL text area with lines of every kind: a URL of the youtu.be form, *)
(* one of the youtube.com/watch?v= form with scheme and www, the same      *)
(* padded with blanks, a line of another site, an empty and a blank line,  *)
(* the pattern in the middle of a line, and the bare prefix                *)

MaxUrlLines == 2

UrlWatch ==
  <<"h","t","t","p","s",":","/","/","w","w","w",".",
    "y","o","u","t","u","b","e",".","c","o","m","/",
    "w","a","t","c","h","?","v","=","z">>
UrlPadded == <<" ">> \o UrlGood \o <<" ">>
UrlMidLine == <<"s","e","e"," ">> \o UrlGood
UrlBarePrefix == <<"y","o","u","t","u",".","b","e","/">>

AnyLineUniverse ==
  {UrlGood, UrlWatch, UrlPadded, UrlBad, <<>>, <<" ">>, UrlMidLine,
   UrlBarePrefix}

\* the 'input' listener of youtubeUrls, for text of these lines
InputAnyLines ==
  /\ FormOpen
  /\ \E lines \in SeqsUpTo(AnyLineUniverse, MaxUrlLines) :
       /\ lines # youtubeUrls
       /\ youtubeUrls' = lines
       /\ convertBtnDisabled' =
            updateConvertButton(lines, fileInputFiles, isProcessing)
  /\ UNCHANGED <<customTitle, startTime, endTime, zipOutput, keepMp3,
                 keepMp3Disabled, includeMp3, fileInputFiles,
                 cancelBtnDisabled, downloadBtnShown, log, selectedFiles,
                 restOfFrame, cancelAt, saved, fnVars>>

\* the conversion of what the text names, with items that succeed
NextUrls ==
  \/ InputAnyLines
  \/ ClickConvert
  \/ DownloadAudioDone \/ DownloadAudioFailed
  \/ LoadAudioDone \/ ResampleDone \/ InitializeDone \/ TranscribeDone

SpecUrls == Init /\ [][NextUrls]_vars

-----------------------------------------------------------------------------
(* The file input with files of every kind: audio by type and extension,   *)
(* by type only, by an upper-case extension only, a text file, and a file  *)
(* without a dot whose whole name is the word of an extension.  fnArg is   *)
(* the list last submitted, fnRet whether the callback ran and with what   *)

MaxFiles == 3

FileTypeOnly == [name |-> <<"m",".","t","x","t">>, type |-> "audio/mpeg"]
FileUpperExt == [name |-> <<"A",".","W","A","V">>, type |-> ""]
FileNoDot == [name |-> <<"w","a","v">>, type |-> ""]

AnyFileUniverse ==
  {FileA, FileTypeOnly, FileUpperExt, FileTxt, FileNoDot}

\* the 'change' listener of the file input, for files of these kinds
SubmitAnyFiles ==
  /\ FormOpen
  /\ \E submitted \in DistinctSeqs(AnyFileUniverse, MaxFiles) :
       /\ fileInputFiles' = Len(submitted)
       /\ handleFiles(submitted, Len(submitted))
       /\ fnArg' = submitted
       /\ fnRet' = IF SelectSeq(submitted, isAudioFile) = <<>>
                   THEN NotCalled
                   ELSE [called |-> TRUE, value |-> selectedFiles']
  /\ UNCHANGED <<youtubeUrls, customTitle, startTime, endTime, zipOutput,
                 keepMp3, keepMp3Disabled, includeMp3, cancelBtnDisabled,
                 downloadBtnShown, log, restOfFrame, cancelAt, saved,
                 adapter, handler>>

NextUpload == SubmitAnyFiles

SpecUpload == Init /\ [][NextUpload]_vars

-----------------------------------------------------------------------------
(* The acquisition of the sources: startConversion from the click to the   *)
(* first item's decoding, for URLs that can be told apart by the name of   *)
(* what they download, with local files selected or not                    *)

InitAcquire ==
  /\ youtubeUrls \in SeqsUpTo({UrlGood, UrlWatch}, MaxUrlLines)
  /\ selectedFiles \in {<<>>} \cup DistinctSeqs(FileUniverse, MaxUrlLines)
  /\ fileInputFiles = Len(selectedFiles)
  /\ convertBtnDisabled =
       updateConvertButton(youtubeUrls, fileInputFiles, FALSE)
  /\ customTitle = <<>> /\ startTime = Num(0) /\ endTime = Num(0)
  /\ zipOutput = FALSE /\ keepMp3 = FALSE /\ keepMp3Disabled = FALSE
  /\ includeMp3 = FALSE
  /\ cancelBtnDisabled = TRUE /\ downloadBtnShown = FALSE
  /\ log = {"ready"}
  /\ isProcessing = FALSE
  /\ model = "null" /\ modelLoaded = FALSE
  /\ outputMIDIPaths = <<>> /\ cancelRequested = FALSE
  /\ pc = "idle" /\ settings = NoSettings /\ urls = <<>> /\ files = <<>>
  /\ audioSources = <<>> /\ i = 0 /\ results = <<>>
  /\ audioBuffer = NoBuffer
  /\ errors = <<>> /\ stages = <<>> /\ called = {}
  /\ lastFailure = NoFailure
  /\ cancelAt = NoCancel /\ saved = NoDownload
  /\ fnArg = <<>> /\ fnRet = NotCalled /\ adapter = NewAdapter /\ handler = NoRequest

NextAcquire ==
  \/ ClickConvert \/ ClickCancel
  \/ DownloadAudioDone \/ DownloadAudioFailed
  \/ ReadFileDone \/ ReadFileFailed

SpecAcquire == InitAcquire /\ [][NextAcquire]_vars

-----------------------------------------------------------------------------
(* The download function of api/download-youtube.js serving one request,   *)
(* in its two variants: 'serverless' collects the audio with stream event  *)
(* listeners, 'classic' with a for await loop.  A response that is written *)
(* is noted by its status; calls are the ytdl calls made.  In the          *)
(* serverless variant the handler has returned when the stream's events    *)
(* arrive, and 'end' and 'error' may arrive in either order.               *)

\* chunks of audio a stream delivers
MaxChunks == 3

\* req.body: null when no body was sent, else an object whose url is
\* missing or empty (<<>>), or a string
BodyUniverse ==
  {[kind |-> "null", url |-> <<>>]} \cup
  {[kind |-> "object", url |-> u] : u \in {<<>>, UrlBad, UrlGood, UrlWatch}}

RequestUniverse ==
  [variant : {"serverless", "classic"},
   method : {"OPTIONS", "GET", "POST"},
   body : BodyUniverse]

NewRequest(req) ==
  [at |-> "received", req |-> req, responses |-> <<>>,
   headersSent |-> FALSE, calls |-> {}, chunks |-> 0,
   ended |-> FALSE, errored |-> FALSE, uncaught |-> 0]

\* res.status(code).end(), .json(...) or .send(...)
respond(h, code) ==
  [h EXCEPT !.responses = Append(@, code), !.headersSent = TRUE]

\* the catch of the handler
catchError(h) ==
  [(IF ~h.headersSent THEN respond(h, 500) ELSE h) EXCEPT !.at = "done"]

\* ytdl.validateURL, and the pattern of the classic variant
validateURL(url) == isValidYouTubeUrl(url)

\* res.setHeader(...) three times, then res.status(200).send(buffer);
\* setHeader throws once the headers are sent
sendAudio(h) ==
  IF h.headersSent THEN [h EXCEPT !.uncaught = @ + 1]
  ELSE respond(h, 200)

InitHandler ==
  /\ ProgramAtRest
  /\ fnArg = <<>> /\ fnRet = NotCalled /\ adapter = NewAdapter
  /\ \E req \in RequestUniverse : handler = NewRequest(req)

\* handler(req, res) from its entry to its first await or its return
HandleRequest ==
  /\ handler.at = "received"
  /\ handler' =
       LET req == handler.req
       IN IF req.method = "OPTIONS"
          THEN [respond(handler, 200) EXCEPT !.at = "done"]
          ELSE IF req.method # "POST"
          THEN [respond(handler, 405) EXCEPT !.at = "done"]
          ELSE IF req.body.kind = "null" THEN catchError(handler)
          ELSE IF req.body.url = <<>>
          THEN [respond(handler, 400) EXCEPT !.at = "done"]
          ELSE IF ~validateURL(req.body.url)
          THEN [respond(handler, 400) EXCEPT !.at = "done"]
          ELSE [handler EXCEPT !.at = "getInfo",
                               !.calls = @ \cup {"getInfo"}]
  /\ UNCHANGED <<domVars, objVars, frameVars, obsVars, fnArg, fnRet,
                 adapter>>

\* the video's info arrives: on to the download
GetInfoDone ==
  /\ handler.at = "getInfo"
  /\ handler' = [handler EXCEPT
                   !.calls = @ \cup {"download"},
                   !.at = IF handler.req.variant = "serverless"
                          THEN "download" ELSE "stream"]
  /\ UNCHANGED <<domVars, objVars, frameVars, obsVars, fnArg, fnRet,
                 adapter>>

GetInfoFailed ==
  /\ handler.at = "getInfo"
  /\ handler' = catchError(handler)
  /\ UNCHANGED <<domVars, objVars, frameVars, obsVars, fnArg, fnRet,
                 adapter>>

\* serverless: ytdl.download resolves, the listeners are set, handler returns
DownloadDone ==
  /\ handler.at = "download"
  /\ handler' = [handler EXCEPT !.at = "listening"]
  /\ UNCHANGED <<domVars, objVars, frameVars, obsVars, fnArg, fnRet,
                 adapter>>

DownloadFailed ==
  /\ handler.at = "download"
  /\ handler' = catchError(handler)
  /\ UNCHANGED <<domVars, objVars, frameVars, obsVars, fnArg, fnRet,
                 adapter>>

\* a chunk arrives: chunks.push(chunk)
StreamData ==
  /\ handler.at \in {"listening", "stream"}
  /\ ~handler.ended /\ ~handler.errored
  /\ handler.chunks < MaxChunks
  /\ handler' = [handler EXCEPT !.chunks = @ + 1]
  /\ UNCHANGED <<domVars, objVars, frameVars, obsVars, fnArg, fnRet,
                 adapter>>

\* the stream ends: the 'end' listener, or the end of the for await loop
StreamEnd ==
  /\ handler.at \in {"listening", "stream"}
  /\ ~handler.ended
  /\ handler' =
       IF handler.at = "listening"
       THEN [sendAudio(handler) EXCEPT !.ended = TRUE]
       ELSE IF handler.headersSent THEN catchError(handler)
            ELSE [respond(handler, 200) EXCEPT !.ended = TRUE, !.at = "done"]
  /\ UNCHANGED <<domVars, objVars, frameVars, obsVars, fnArg, fnRet,
                 adapter>>

\* the stream fails: the 'error' listener, or a throw out of the loop
StreamError ==
  /\ handler.at \in {"listening", "stream"}
  /\ ~handler.errored
  /\ handler' =
       IF handler.at = "listening"
       THEN [(IF ~handler.headersSent THEN respond(handler, 500)
              ELSE handler) EXCEPT !.errored = TRUE]
       ELSE [catchError(handler) EXCEPT !.errored = TRUE]
  /\ UNCHANGED <<domVars, objVars, frameVars, obsVars, fnArg, fnRet,
                 adapter>>

NextHandler ==
  \/ HandleRequest
  \/ GetInfoDone \/ GetInfoFailed
  \/ DownloadDone \/ DownloadFailed
  \/ StreamData \/ StreamEnd \/ StreamError

SpecHandler == InitHandler /\ [][NextHandler]_vars

-----------------------------------------------------------------------------
(* The form on its own: the user edits the fields, selects files and       *)
(* changes the checkboxes, and no conversion is started                    *)

NextForm ==
  \/ InputUrls \/ BrowseFiles \/ DropFiles \/ SetCustomTitle \/ SetTrim
  \/ ToggleZipOutput \/ ToggleKeepMp3 \/ ToggleIncludeMp3

SpecForm == Init /\ [][NextForm]_vars

-----------------------------------------------------------------------------
(* The form used while a conversion runs: nothing disables the URL text    *)
(* area, the file input or the upload zone during a conversion, so their   *)
(* listeners run between the steps of startConversion                      *)

InputUrlsWhileProcessing == isProcessing /\ urlsInput
BrowseFilesWhileProcessing == isProcessing /\ filesChanged
DropFilesWhileProcessing == isProcessing /\ filesDropped

NextBusy ==
  \/ InputUrls \/ BrowseFiles \/ DropFiles
  \/ InputUrlsWhileProcessing \/ BrowseFilesWhileProcessing
  \/ DropFilesWhileProcessing
  \/ ClickConvert
  \/ DownloadAudioDone \/ DownloadAudioFailed
  \/ ReadFileDone \/ ReadFileFailed
  \/ LoadAudioDone \/ LoadAudioFailed
  \/ ResampleDone \/ ResampleFailed
  \/ InitializeDone \/ InitializeFailed
  \/ TranscribeDone \/ TranscribeFailed

SpecBusy == Init /\ [][NextBusy]_vars

-----------------------------------------------------------------------------
(* Conversions whose awaited stages all settle: every await of            *)
(* startConversion is on a promise that resolves or rejects, so a          *)
(* suspended startConversion is eventually resumed; the user clicks Cancel *)
(* at any moment, or not at all                                            *)

Settle ==
  \/ DownloadAudioDone \/ DownloadAudioFailed
  \/ ReadFileDone \/ ReadFileFailed
  \/ LoadAudioDone \/ LoadAudioFailed
  \/ ResampleDone \/ ResampleFailed
  \/ InitializeDone \/ InitializeFailed
  \/ TranscribeDone \/ TranscribeFailed

\* sources of a batch of this part
MaxSettling == 2

InitSettling ==
  /\ youtubeUrls \in SeqsUpTo({UrlGood}, MaxSettling)
  /\ selectedFiles \in {<<>>} \cup DistinctSeqs({FileA}, MaxSettling)
  /\ fileInputFiles = Len(selectedFiles)
  /\ convertBtnDisabled =
       updateConvertButton(youtubeUrls, fileInputFiles, FALSE)
  /\ customTitle = <<>> /\ startTime = Num(0) /\ endTime = Num(0)
  /\ zipOutput = FALSE /\ keepMp3 = FALSE /\ keepMp3Disabled = FALSE
  /\ includeMp3 = FALSE
  /\ cancelBtnDisabled = TRUE /\ downloadBtnShown = FALSE
  /\ log = {"ready"}
  /\ isProcessing = FALSE
  /\ model = "null" /\ modelLoaded = FALSE
  /\ outputMIDIPaths = <<>> /\ cancelRequested = FALSE
  /\ pc = "idle" /\ settings = NoSettings /\ urls = <<>> /\ files = <<>>
  /\ audioSources = <<>> /\ i = 0 /\ results = <<>>
  /\ audioBuffer = NoBuffer
  /\ errors = <<>> /\ stages = <<>> /\ called = {}
  /\ lastFailure = NoFailure
  /\ cancelAt = NoCancel /\ saved = NoDownload
  /\ fnArg = <<>> /\ fnRet = NotCalled /\ adapter = NewAdapter /\ handler = NoRequest

NextSettling ==
  \/ ClickConvert \/ ClickCancel
  \/ Settle

SpecSettling == InitSettling /\ [][NextSettling]_vars /\ WF_vars(Settle)

-----------------------------------------------------------------------------
(* The PianoTranscription adapter on its own: one caller that makes one    *)
(* call at a time, initialize(), transcribe() or dispose(), in any order   *)

\* calls the caller makes
MaxCalls == 5

restOfProgram ==
  <<domVars, objVars, frameVars, obsVars, fnArg, fnRet, handler>>

InitAtRest == ProgramAtRest /\ fnArg = <<>> /\ fnRet = NotCalled

InitAdapter == InitAtRest /\ adapter = NewAdapter /\ handler = NoRequest

\* this.model = new mm.OnsetsAndFrames(...), up to the await of its load
constructModel(a, at) ==
  [a EXCEPT !.model = a.constructed + 1,
            !.constructed = a.constructed + 1,
            !.at = at]

\* initialize() without the test of modelLoaded
CallInitialize_AlwaysLoads ==
  /\ adapter.at = "idle" /\ adapter.calls < MaxCalls
  /\ adapter' = constructModel([adapter EXCEPT !.calls = @ + 1],
                               "initialize")
  /\ UNCHANGED restOfProgram

\* a call of initialize(), up to its return or its await
CallInitialize ==
  /\ adapter.at = "idle" /\ adapter.calls < MaxCalls
  /\ adapter' =
       LET a == [adapter EXCEPT !.calls = @ + 1]
       IN IF a.modelLoaded
          THEN [a EXCEPT !.returned = a.model]
          ELSE constructModel(a, "initialize")
  /\ UNCHANGED restOfProgram

\* a call of transcribe(), up to its first await
CallTranscribe ==
  /\ adapter.at = "idle" /\ adapter.calls < MaxCalls
  /\ adapter' =
       LET a == [adapter EXCEPT !.calls = @ + 1]
       IN IF ~a.modelLoaded
          THEN constructModel(a, "transcribe.initialize")
          ELSE [a EXCEPT !.at = "transcribe"]
  /\ UNCHANGED restOfProgram

\* model.initialize() resolves: modelLoaded = true, return this.model; in
\* transcribe, on to the await of the inference
ModelLoadDone ==
  /\ adapter.at \in {"initialize", "transcribe.initialize"}
  /\ adapter' = [adapter EXCEPT !.modelLoaded = TRUE,
                                !.returned = adapter.model,
                                !.at = IF adapter.at = "initialize"
                                       THEN "idle" ELSE "transcribe"]
  /\ UNCHANGED restOfProgram

\* model.initialize() rejects: 'Model initialization failed' is thrown to
\* the caller; this.model keeps the instance, modelLoaded stays false
ModelLoadFailed ==
  /\ adapter.at \in {"initialize", "transcribe.initialize"}
  /\ adapter' = [adapter EXCEPT !.failed = @ + 1, !.at = "idle"]
  /\ UNCHANGED restOfProgram

\* transcribeFromAudioArray resolves or rejects: transcribe returns or
\* throws
InferenceEnds ==
  /\ adapter.at = "transcribe"
  /\ adapter' = [adapter EXCEPT !.at = "idle"]
  /\ UNCHANGED restOfProgram

\* dispose() without the reset of modelLoaded
CallDispose_KeepsLoaded ==
  /\ adapter.at = "idle" /\ adapter.calls < MaxCalls
  /\ adapter' =
       LET a == [adapter EXCEPT !.calls = @ + 1]
       IN IF a.model # 0
          THEN [a EXCEPT !.model = 0, !.disposed = @ + 1]
          ELSE a
  /\ UNCHANGED restOfProgram

\* dispose()
CallDispose ==
  /\ adapter.at = "idle" /\ adapter.calls < MaxCalls
  /\ adapter' =
       LET a == [adapter EXCEPT !.calls = @ + 1]
       IN IF a.model # 0
          THEN [a EXCEPT !.model = 0, !.modelLoaded = FALSE,
                         !.disposed = @ + 1]
          ELSE a
  /\ UNCHANGED restOfProgram

NextAdapter ==
  \/ CallInitialize \/ CallTranscribe \/ CallDispose
  \/ ModelLoadDone \/ ModelLoadFailed \/ InferenceEnds

SpecAdapter == InitAdapter /\ [][NextAdapter]_vars

-----------------------------------------------------------------------------
(* The PianoTranscription adapter with calls that overlap: a call of       *)
(* initialize(), transcribe() or dispose() may begin while earlier calls   *)
(* are suspended at their await.  pending holds the suspended calls, each  *)
(* with the model instance whose load or inference it awaits; loaded and   *)
(* disposed are the instances that have finished loading and that were     *)
(* disposed of.                                                            *)

NewSharedAdapter ==
  [model |-> 0, modelLoaded |-> FALSE, constructed |-> 0, calls |-> 0,
   pending |-> {}, loaded |-> {}, disposed |-> {}]

InitShared ==
  /\ InitAtRest /\ handler = NoRequest
  /\ adapter = NewSharedAdapter

\* the call numbered id constructs a model and awaits its load
beginLoad(a, id, kind) ==
  [a EXCEPT !.model = a.constructed + 1,
            !.constructed = a.constructed + 1,
            !.pending = @ \cup {[id |-> id, kind |-> kind, at |-> "load",
                                  instance |-> a.constructed + 1]}]

\* transcribe from this.model.transcribeFromAudioArray(audioSamples) on:
\* with this.model null the call throws at once
beginInference(a, id) ==
  IF a.model = 0 THEN a
  ELSE [a EXCEPT !.pending = @ \cup {[id |-> id, kind |-> "transcribe",
                                       at |-> "inference",
                                       instance |-> a.model]}]

\* a call of initialize(), up to its return or its await
BeginInitialize ==
  /\ adapter.calls < MaxCalls
  /\ adapter' =
       LET a == [adapter EXCEPT !.calls = @ + 1]
       IN IF a.modelLoaded THEN a
          ELSE beginLoad(a, a.calls, "initialize")
  /\ UNCHANGED restOfProgram

\* a call of transcribe(), up to its first await
BeginTranscribe ==
  /\ adapter.calls < MaxCalls
  /\ adapter' =
       LET a == [adapter EXCEPT !.calls = @ + 1]
       IN IF ~a.modelLoaded
          THEN beginLoad(a, a.calls, "transcribe")
          ELSE beginInference(a, a.calls)
  /\ UNCHANGED restOfProgram

\* the load a call awaits resolves: this.modelLoaded = true; initialize
\* returns this.model, and a transcribe goes on to its inference
LoadResolves ==
  /\ \E p \in adapter.pending :
       /\ p.at = "load"
       /\ adapter' =
            LET a == [adapter EXCEPT !.modelLoaded = TRUE,
                                     !.loaded = @ \cup {p.instance},
                                     !.pending = @ \ {p}]
            IN IF p.kind = "transcribe" THEN beginInference(a, p.id) ELSE a
  /\ UNCHANGED restOfProgram

\* the load a call awaits rejects: the call throws
LoadRejects ==
  /\ \E p \in adapter.pending :
       /\ p.at = "load"
       /\ adapter' = [adapter EXCEPT !.pending = @ \ {p}]
  /\ UNCHANGED restOfProgram

\* the inference a transcribe awaits resolves or rejects
InferenceSettles ==
  /\ \E p \in adapter.pending :
       /\ p.at = "inference"
       /\ adapter' = [adapter EXCEPT !.pending = @ \ {p}]
  /\ UNCHANGED restOfProgram

\* dispose()
Dispose ==
  /\ adapter.calls < MaxCalls
  /\ adapter' =
       LET a == [adapter EXCEPT !.calls = @ + 1]
       IN IF a.model # 0
          THEN [a EXCEPT !.disposed = @ \cup {a.model},
                         !.model = 0, !.modelLoaded = FALSE]
          ELSE a
  /\ UNCHANGED restOfProgram

NextShared ==
  \/ BeginInitialize \/ BeginTranscribe \/ Dispose
  \/ LoadResolves \/ LoadRejects \/ InferenceSettles

SpecShared == InitShared /\ [][NextShared]_vars

-----------------------------------------------------------------------------
(* What a run of startConversion shows from outside *)

N == Len(audioSources)

\* startConversion has run and has returned
Finished == pc = "idle" /\ "starting" \in log

\* the externally visible state of the batch, read off the flags and the
\* log lines startConversion leaves
BatchState ==
  IF "starting" \notin log THEN "Idle"
  ELSE IF pc # "idle" THEN "Running"
  ELSE IF "noSources" \in log \/ "error" \in log THEN "Failed"
  ELSE IF "cancelled" \in log THEN "Cancelled"
  ELSE "Completed"

ResultIndices == {results[k].index : k \in 1..Len(results)}
ErrorIndices == {errors[k].index : k \in 1..Len(errors)}
RecordedIndices == ResultIndices \cup ErrorIndices

\* the stages a converted item went through under the batch's settings
FullPipeline ==
  <<"loadAudio">>
  \o (IF GreaterThanZero(settings.startTime)
         \/ GreaterThanZero(settings.endTime)
      THEN <<"trimAudio">> ELSE <<>>)
  \o <<"resampleAudio", "getAudioSamples", "transcribe", "generateMIDI">>

ItemCalls == {"loadAudio", "trimAudio", "resampleAudio", "initialize",
              "transcribe", "generateMIDI"}

-----------------------------------------------------------------------------
(* Batch contract *)

\* C1: when a batch of N >= 1 sources has finished with no stage of any item
\* failing and no cancellation requested, the result list has exactly N
\* entries, one per source in order, no per-item error is recorded and the
\* batch is Completed
C1_AllSucceed ==
  (Finished /\ N >= 1 /\ lastFailure = NoFailure /\ ~cancelRequested
     /\ "error" \notin log)
  => /\ Len(results) = N
     /\ \A k \in 1..Len(results) : results[k].index = k - 1
     /\ errors = <<>>
     /\ outputMIDIPaths = results
     /\ BatchState = "Completed"

C1_Witness ==
  /\ Finished /\ N = MaxInputs /\ ~cancelRequested
  /\ Len(results) = N /\ errors = <<>> /\ BatchState = "Completed"

\* C2: a stage of an item that throws never ends the batch: the failure is
\* recorded for that item with its source's name, the loop is at a later
\* item while the batch runs, and without cancellation every source ends up
\* as a result or an error; with 3 sources of which only the second fails
\* to decode the batch is Completed with 2 results and 1 error naming the
\* second source
C2_FailureContinues ==
  lastFailure # NoFailure
  => /\ \E k \in 1..Len(errors) :
          errors[k] = [index |-> lastFailure.index,
                       name |-> audioSources[lastFailure.index + 1].name]
     /\ "error" \notin log
     /\ pc # "idle" => i > lastFailure.index
     /\ (pc = "idle" /\ ~cancelRequested)
          => /\ RecordedIndices = 0..(N - 1)
             /\ Len(results) + Len(errors) = N
             /\ BatchState = "Completed"
     /\ (pc = "idle" /\ ~cancelRequested /\ N = 3 /\ Len(errors) = 1
           /\ lastFailure = [index |-> 1, stage |-> "loadAudio"])
          => /\ Len(results) = 2
             /\ ResultIndices = {0, 2}
             /\ errors[1].name = audioSources[2].name

C2_Witness ==
  /\ Finished /\ ~cancelRequested /\ N = 3
  /\ lastFailure = [index |-> 1, stage |-> "loadAudio"]
  /\ Len(errors) = 1 /\ errors[1].index = 1
  /\ Len(results) = 2 /\ BatchState = "Completed"

\* C3: when cancellation was requested during item k and item k+1 exists,
\* the request is seen after item k is recorded and before item k+1 starts:
\* exactly k+1 items are recorded as a result or an error, none at or
\* beyond k+1, and the batch is Cancelled
C3_CancelBeforeNextItem ==
  (pc = "idle" /\ cancelAt # NoCancel /\ cancelAt.phase = "item"
     /\ cancelAt.i + 1 < N)
  => /\ "cancelled" \in log
     /\ i = cancelAt.i + 1
     /\ Len(results) + Len(errors) = cancelAt.i + 1
     /\ RecordedIndices = 0..cancelAt.i
     /\ BatchState = "Cancelled"

C3_Witness ==
  /\ pc = "idle" /\ cancelAt # NoCancel /\ cancelAt.phase = "item"
  /\ cancelAt.i = 1 /\ N = 3
  /\ Len(results) + Len(errors) = 2 /\ BatchState = "Cancelled"

\* C4: cancellation acts only between items: after cancelConversion ran at
\* an await inside item k, item k stays the item in flight until it is
\* recorded; once the batch has returned item k is a result that went
\* through every stage or an error left by a stage that threw, and no item
\* after k is recorded
C4_CancelOnlyBetweenItems ==
  (cancelAt # NoCancel /\ cancelAt.phase = "item")
  => /\ pc # "idle" => /\ i = cancelAt.i
                       /\ cancelAt.i \notin RecordedIndices
     /\ pc = "idle"
          => /\ cancelAt.i \in RecordedIndices
             /\ \A k \in 1..Len(results) :
                  /\ results[k].index <= cancelAt.i
                  /\ results[k].index = cancelAt.i
                       => results[k].stages = FullPipeline
             /\ \A k \in 1..Len(errors) :
                  /\ errors[k].index <= cancelAt.i
                  /\ errors[k].index = cancelAt.i
                       => /\ lastFailure # NoFailure
                          /\ lastFailure.index = cancelAt.i

C4_Witness ==
  /\ pc = "idle" /\ cancelAt # NoCancel /\ cancelAt.phase = "item"
  /\ cancelAt.i = 0 /\ N >= 2
  /\ Len(results) = 1 /\ results[1].index = 0
  /\ results[1].stages = FullPipeline

\* C5: a batch started with no audio source returns at once with the
\* "No audio sources provided!" error: no decode, trim, resample, model
\* load, transcribe or encode call is made, no result is produced and no
\* download is offered
C5_ZeroSources ==
  (Finished /\ N = 0 /\ "error" \notin log)
  => /\ "noSources" \in log
     /\ BatchState = "Failed"
     /\ called \cap ItemCalls = {}
     /\ results = <<>> /\ errors = <<>>
     /\ outputMIDIPaths = <<>>
     /\ ~downloadBtnShown

C5_Witness ==
  /\ Finished /\ N = 0 /\ "noSources" \in log /\ BatchState = "Failed"

C7_EndsWithDotMid ==
  fnRet.called => EndsWith(fnRet.value, DotMid)

-----------------------------------------------------------------------------
(* Delivery *)

ZipEntries(zip) == DOMAIN zip

Distinct(list) ==
  \A a, b \in 1..Len(list) : a # b => list[a].filename # list[b].filename

\* C8: an archive of more than one result, of distinct names, with the
\* original audio included holds each result's MIDI bytes under the
\* result's name and its source bytes under a different name, two entries
\* per result
C8_TwoEntriesPerResult ==
  (saved # NoDownload /\ Len(outputMIDIPaths) > 1
     /\ saved.settings.zipOutput /\ saved.settings.includeMp3
     /\ Distinct(outputMIDIPaths))
  => LET zip == saved.calls[1].data
     IN /\ \A k \in 1..Len(outputMIDIPaths) :
             LET r == outputMIDIPaths[k]
             IN /\ r.filename \in ZipEntries(zip)
                /\ zip[r.filename] = r.midiData
                /\ audioName(r.filename) # r.filename
                /\ audioName(r.filename) \in ZipEntries(zip)
                /\ zip[audioName(r.filename)] = r.audioBuffer
        /\ Cardinality(ZipEntries(zip)) = 2 * Len(outputMIDIPaths)

\* C9: a download of one result is a single MIDI file whatever the archive
\* option; of more than one result with the archive option, exactly one
\* archive; of more than one result without it, one MIDI file per result,
\* in order
C9_DeliveryMode ==
  saved # NoDownload
  => LET n == Len(outputMIDIPaths)
         isFile(call, r) == call.kind = "midi" /\ call.data = r.midiData
     IN /\ n = 1 => /\ Len(saved.calls) = 1
                    /\ isFile(saved.calls[1], outputMIDIPaths[1])
        /\ (n > 1 /\ saved.settings.zipOutput)
             => /\ Len(saved.calls) = 1
                /\ saved.calls[1].kind = "zip"
        /\ (n > 1 /\ ~saved.settings.zipOutput)
             => /\ Len(saved.calls) = n
                /\ \A k \in 1..n : isFile(saved.calls[k], outputMIDIPaths[k])

C9_Witness ==
  /\ saved # NoDownload /\ Len(outputMIDIPaths) > 1
  /\ ~saved.settings.zipOutput /\ Len(saved.calls) = Len(outputMIDIPaths)

\* C10: a result is named by the sanitized custom title when there is a
\* title and one source; by the sanitized "{title}_{i}" when there is a
\* title and more than one source, i being the 1-based position of its
\* source in the source list whatever happened to earlier items; and by its
\* own source's base name when there is no title
C10_OutputNaming ==
  \A k \in 1..Len(results) :
    LET r == results[k]
        title == settings.customTitle
        source == audioSources[r.index + 1]
    IN /\ r.audioBuffer = source.buffer
       /\ (title # <<>> /\ N = 1) => r.filename = sanitizeFilename(title)
       /\ (title # <<>> /\ N > 1)
            => r.filename =
                 sanitizeFilename(title \o <<"_">>
                                    \o NumberToString(r.index + 1))
       /\ title = <<>> => r.filename = sanitizeFilename(source.name)

C10_Witness ==
  /\ Finished /\ N = 3 /\ settings.customTitle # <<>>
  /\ ErrorIndices = {0, 1}
  /\ Len(results) = 1 /\ results[1].index = 2
  /\ results[1].filename = <<"t", "_", "3", "m", "i", "d">>

-----------------------------------------------------------------------------
(* Adapter and scheduling *)

\* C11: a call of initialize() or transcribe() on an adapter whose model is
\* loaded constructs and loads nothing: the model instance stays the same,
\* initialize() returns it at once, and transcribe() goes straight to the
\* inference; so a model is constructed beyond the first only after a
\* failed load or a dispose, however many calls (items, batches) are made
C11_InitializeOnce ==
  /\ [](adapter.constructed <= 1 + adapter.failed + adapter.disposed)
  /\ [][(adapter.modelLoaded /\ CallInitialize)
          => /\ adapter'.constructed = adapter.constructed
             /\ adapter'.model = adapter.model
             /\ adapter'.modelLoaded
             /\ adapter'.at = "idle"
             /\ adapter'.returned = adapter.model]_vars
  /\ [][(adapter.modelLoaded /\ CallTranscribe)
          => /\ adapter'.constructed = adapter.constructed
             /\ adapter'.model = adapter.model
             /\ adapter'.modelLoaded
             /\ adapter'.at = "transcribe"]_vars

\* C12: while startConversion runs the convert button is disabled and
\* isProcessing is set, whatever is typed, browsed or dropped meanwhile, so
\* no second startConversion starts; and a transcribe call is in flight only
\* for the one item the loop is at, every earlier item already recorded as a
\* result or an error
C12_OneTranscribeAtATime ==
  /\ pc # "idle" => convertBtnDisabled /\ isProcessing
  /\ pc \in {"initialize", "transcribe"}
       => /\ RecordedIndices = 0..(i - 1)
          /\ Len(results) + Len(errors) = i
          /\ i < N

C12_Witness ==
  /\ pc = "transcribe" /\ i >= 1
  /\ youtubeUrls # settings.youtubeUrls
  /\ fileInputFiles > 0
  /\ convertBtnDisabled /\ isProcessing

C14_DurationFilter ==
  (fnRet.called /\ fnArg.enableMaxNotesFilter
     /\ fnArg.maxNoteDuration.kind = "num")
  => LET notes == fnArg.notes
         m == fnArg.maxNoteDuration.v
         survivors == {k \in 1..Len(notes) :
                         notes[k].endTime - notes[k].startTime <= m}
         rank(k) == Cardinality({j \in survivors : j <= k})
     IN /\ Len(fnRet.value) = Cardinality(survivors)
        /\ \A k \in survivors :
             /\ fnRet.value[rank(k)].midi = notes[k].pitch
             /\ fnRet.value[rank(k)].time = notes[k].startTime
             /\ fnRet.value[rank(k)].duration
                  = notes[k].endTime - notes[k].startTime
        /\ \A j \in 1..Len(fnRet.value) : fnRet.value[j].duration <= m

C14_Witness ==
  /\ fnRet.called /\ fnArg.enableMaxNotesFilter
  /\ fnArg.maxNoteDuration = Num(2)
  /\ fnArg.notes = <<Note(63, 1, 4), Note(62, 2, 4), Note(60, 0, 1)>>
  /\ Len(fnRet.value) = 2
  /\ fnRet.value[1].midi = 62 /\ fnRet.value[2].midi = 60

\* C15: trimAudio with start 0 and no end (0, null or NaN) returns a buffer
\* of the original length, rate and channels; with an end above 0 and a
\* start at or after it, it throws and returns no buffer
C15_TrimBoundary ==
  fnRet.called
  => /\ (fnArg.startTime = Num(0) /\ ~Truthy(fnArg.endTime))
          => /\ fnRet.value # Thrown
             /\ fnRet.value = fnArg.buffer
     /\ (fnArg.startTime.kind = "num" /\ Truthy(fnArg.endTime)
           /\ fnArg.startTime.v >= fnArg.endTime.v)
          => fnRet.value = Thrown

C15_Witness ==
  /\ fnRet.called
  /\ fnArg.startTime = Num(2) /\ fnArg.endTime = Num(1)
  /\ fnArg.buffer.length = 3 * DecodedSampleRate
  /\ fnRet.value = Thrown

MatchingLines(lines) ==
  {k \in 1..Len(lines) : isValidYouTubeUrl(Trim(lines[k]))}

\* C18: downloadAudio is awaited only for a URL that is the trimmed form of
\* a line of the text and matches the pattern, the URLs are requested in
\* the order of their lines, at most one request per matching line, and a
\* text without a matching line causes no request at all
C18_OnlyMatchingLinesDownloaded ==
  /\ pc = "downloadAudio"
     => /\ isValidYouTubeUrl(urls[i + 1])
        /\ i < Cardinality(MatchingLines(settings.youtubeUrls))
        /\ \E k \in MatchingLines(settings.youtubeUrls) :
             /\ Trim(settings.youtubeUrls[k]) = urls[i + 1]
             /\ Cardinality({m \in MatchingLines(settings.youtubeUrls) :
                              m < k}) = i
  /\ ("starting" \in log /\ MatchingLines(settings.youtubeUrls) = {})
     => "downloadAudio" \notin called
  /\ ("starting" \in log /\ pc # "downloadAudio")
     => (Len(audioSources) <= Cardinality(MatchingLines(settings.youtubeUrls)))

\* the first line is skipped and the second, padded, is requested trimmed
C18_Witness ==
  /\ pc = "downloadAudio" /\ i = 0
  /\ Len(settings.youtubeUrls) = 2
  /\ Trim(settings.youtubeUrls[1]) # <<>>
  /\ ~isValidYouTubeUrl(Trim(settings.youtubeUrls[1]))
  /\ urls[1] # settings.youtubeUrls[2]

\* the extension of a file name: what follows its last dot, none without one
HasAudioExtension(name) ==
  /\ \E k \in 1..Len(name) : name[k] = "."
  /\ ToLowerCase(LastDotPart(name)) \in audioExtensions

\* C19: after a submission the selection is exactly the submitted files
\* whose declared type is a supported audio type or whose extension is one
\* of the eight, in their order; with none accepted the callback is not run
C19_AcceptedExactlyAudioFiles ==
  fnArg # <<>>
  => LET accepted ==
           SelectSeq(fnArg, LAMBDA file : \/ file.type \in supportedFormats
                                         \/ HasAudioExtension(file.name))
     IN IF accepted = <<>> THEN ~fnRet.called
        ELSE fnRet.called /\ selectedFiles = accepted

\* C20: a batch that has finished with no result and at least one per-item
\* error is reported with the line "no files were converted", not through
\* the outer catch and not as all complete, and is not Failed; and when a
\* batch has finished the download button is shown exactly if the batch has
\* at least one result, the deliverable set being those results
C20_NoneConvertedIsNotFailure ==
  /\ (Finished /\ results = <<>> /\ errors # <<>>)
     => /\ "noneConverted" \in log
        /\ "error" \notin log /\ "allComplete" \notin log
        /\ BatchState # "Failed"
  /\ Finished
     => /\ downloadBtnShown <=> Len(results) > 0
        /\ downloadBtnShown => outputMIDIPaths = results
        /\ ~downloadBtnShown => outputMIDIPaths = <<>>

\* every item of a batch of two failed, with no cancellation
C20_Witness ==
  /\ Finished /\ N = 2 /\ ~cancelRequested
  /\ results = <<>> /\ Len(errors) = 2
  /\ ~downloadBtnShown

\* C21: after dispose() the adapter holds no model and reports not loaded;
\* a call of initialize() or transcribe() on an adapter that is not loaded
\* constructs one new model and awaits its load; a loaded adapter holds the
\* model constructed last; and once the adapter is loaded again after a
\* dispose, initialize() returns that model at once and constructs nothing
C21_DisposeInvalidatesReadiness ==
  /\ [][CallDispose => (adapter'.model = 0 /\ ~adapter'.modelLoaded
                          /\ adapter'.at = "idle")]_vars
  /\ [][(~adapter.modelLoaded /\ (CallInitialize \/ CallTranscribe))
          => /\ adapter'.constructed = adapter.constructed + 1
             /\ adapter'.model = adapter'.constructed
             /\ ~adapter'.modelLoaded
             /\ adapter'.at \in {"initialize", "transcribe.initialize"}]_vars
  /\ [](adapter.modelLoaded => adapter.model = adapter.constructed)
  /\ [](adapter.disposed <= adapter.constructed)
  /\ [][(adapter.disposed > 0 /\ adapter.modelLoaded /\ CallInitialize)
          => /\ adapter'.constructed = adapter.constructed
             /\ adapter'.returned = adapter.constructed
             /\ adapter'.modelLoaded /\ adapter'.at = "idle"]_vars

\* loaded, disposed of, loaded again by one call, then initialize() twice
C21_Witness ==
  /\ adapter.calls = MaxCalls /\ adapter.at = "idle"
  /\ adapter.disposed = 1 /\ adapter.failed = 0
  /\ adapter.modelLoaded /\ adapter.constructed = 2
  /\ adapter.model = 2 /\ adapter.returned = 2

\* C22: with a missing start taken as 0, an end that is not above 0 taken as
\* the end of the buffer, and both sample indices clamped to the buffer,
\* trimAudio returns, whenever the clamped start is below the clamped end,
\* the frames from the one to the other: a buffer of that length, of the
\* source's rate and channels, no longer than the source and holding no
\* sample read outside it
C22_TrimRangePolicy ==
  fnRet.called
  => LET frameCount == fnArg.buffer.length
         rate == fnArg.buffer.sampleRate
         startSample == IF GreaterThanZero(fnArg.startTime)
                        THEN Min(fnArg.startTime.v * rate, frameCount)
                        ELSE 0
         endSample == IF GreaterThanZero(fnArg.endTime)
                      THEN Min(fnArg.endTime.v * rate, frameCount)
                      ELSE frameCount
     IN startSample < endSample
        => /\ fnRet.value # Thrown
           /\ fnRet.value.length = endSample - startSample
           /\ fnRet.value.length <= frameCount
           /\ fnRet.value.sampleRate = rate
           /\ fnRet.value.numberOfChannels = fnArg.buffer.numberOfChannels
           /\ ~fnRet.value.outside

\* C23: with the filter disabled, or with a maximum duration that is null or
\* not a number (the empty or unparseable field), every note of the sequence
\* is encoded, in order, and none is dropped
C23_NoFilterWithoutMaximum ==
  (fnRet.called /\ (~fnArg.enableMaxNotesFilter
                      \/ fnArg.maxNoteDuration.kind # "num"))
  => /\ Len(fnRet.value) = Len(fnArg.notes)
     /\ \A k \in 1..Len(fnArg.notes) :
          /\ fnRet.value[k].midi = fnArg.notes[k].pitch
          /\ fnRet.value[k].time = fnArg.notes[k].startTime

IsPrefix(s, t) == Len(s) <= Len(t) /\ SubSeq(t, 1, Len(s)) = s

Cleaned(s) ==
  LET hyphenOrBlank(c) == c = "-" \/ c \in SpaceChars
      stays(c) == c \in WordChars \/ hyphenOrBlank(c)
      before(k) == {j \in 1..(k - 1) : stays(s[j])}
      last(S) == CHOOSE j \in S : \A m \in S : m <= j
      startsRun(k) ==
        /\ hyphenOrBlank(s[k])
        /\ (before(k) = {} \/ ~hyphenOrBlank(s[last(before(k))]))
      positions == SelectSeq([k \in 1..Len(s) |-> k],
                             LAMBDA k : s[k] \in WordChars \/ startsRun(k))
  IN [j \in 1..Len(positions) |->
        IF s[positions[j]] \in WordChars THEN s[positions[j]] ELSE "_"]

\* C25: what a sanitizer returns has at most 200 characters, all of them
\* letters, digits or underscores: it is the first 200 characters of its
\* input (for MIDIGenerator, with ".mid" appended if absent) with every
\* run of hyphens and blanks turned into one underscore and every other
\* character that is not a letter, digit or underscore removed
C25_SanitizedCharacters ==
  fnRet.called
  => LET input == IF fnRet.by = "MIDIGenerator" /\ ~EndsWith(fnArg, DotMid)
                  THEN fnArg \o DotMid ELSE fnArg
         cleaned == Cleaned(input)
     IN /\ Len(fnRet.value) <= MaxFilenameLength
        /\ \A k \in 1..Len(fnRet.value) : fnRet.value[k] \in WordChars
        /\ fnRet.value = SubSeq(cleaned, 1, Min(Len(cleaned),
                                                 MaxFilenameLength))

\* a name cut at 200 characters in which a run of two separators, with a
\* removed character between them, came out as one underscore
C25_Witness ==
  /\ fnRet.called /\ fnRet.by = "api"
  /\ Len(fnArg) = MaxFilenameLength + 2
  /\ SubSeq(fnArg, Len(fnArg) - 2, Len(fnArg)) = <<"-", "!", " ">>
  /\ Len(fnRet.value) = MaxFilenameLength
  /\ fnRet.value[MaxFilenameLength] = "_"

\* the source a URL gives when its download succeeds, and a file when read
SourceOfUrl(url) ==
  [name |-> ReplaceFirst(downloadFilename(url), DotMp3, <<>>),
   type |-> "youtube"]
SourceOfFile(file) ==
  [name |-> getFileNameWithoutExtension(file.name), type |-> "file"]
NameAndType(source) == [name |-> source.name, type |-> source.type]

\* C26: a download that fails adds no source and, with no cancellation
\* requested, is followed by the download of the next URL or, after the
\* last URL, by the reading of the first selected file (by the processing
\* loop if no file is selected and some source was acquired); a download
\* that succeeds adds the source of that URL at the end; and when the
\* processing loop starts with no cancellation requested, the sources are
\* downloads, in the order of their URLs, followed by every selected file
\* in selection order
C26_FailedDownloadSkipsOneUrl ==
  /\ [][DownloadAudioFailed
          => /\ audioSources' = audioSources
             /\ "error" \notin log'
             /\ ~cancelRequested
                => IF i + 1 < Len(urls)
                   THEN pc' = "downloadAudio" /\ i' = i + 1
                   ELSE IF selectedFiles # <<>>
                        THEN pc' = "readFile" /\ i' = 0
                        ELSE IF audioSources # <<>>
                             THEN pc' = "loadAudio" /\ i' = 0
                             ELSE pc' = "idle" /\ "noSources" \in log']_vars
  /\ [][DownloadAudioDone
          => /\ Len(audioSources') = Len(audioSources) + 1
             /\ SubSeq(audioSources', 1, Len(audioSources)) = audioSources
             /\ NameAndType(audioSources'[Len(audioSources')])
                  = SourceOfUrl(urls[i + 1])]_vars
  /\ []((pc = "loadAudio" /\ ~cancelRequested)
         => \E kept \in SUBSET (1..Len(urls)) :
              LET d == Cardinality(kept)
                  rank(k) == Cardinality({j \in kept : j <= k})
              IN /\ Len(audioSources) = d + Len(selectedFiles)
                 /\ \A k \in kept :
                      NameAndType(audioSources[rank(k)])
                        = SourceOfUrl(urls[k])
                 /\ \A k \in 1..Len(selectedFiles) :
                      NameAndType(audioSources[d + k])
                        = SourceOfFile(selectedFiles[k]))

\* the first of two URLs failed, the second was downloaded, both files read
C26_Witness ==
  /\ pc = "loadAudio" /\ ~cancelRequested
  /\ "downloadFailed" \in log
  /\ urls = <<UrlGood, UrlWatch>>
  /\ Len(selectedFiles) = 2 /\ Len(audioSources) = 3
  /\ NameAndType(audioSources[1]) = SourceOfUrl(UrlWatch)

\* C27: at most one response is written for a request; once the request is
\* classified, an OPTIONS request has got 200, another method than POST
\* 405, a POST without a url 400 and a POST with an invalid URL 400, each
\* with no call of ytdl; and a 500 is the only response of its request
C27_HandlerResponses ==
  LET req == handler.req
      classified == handler.at # "received"
  IN handler # NoRequest
     => /\ Len(handler.responses) <= 1
        /\ (classified /\ req.method = "OPTIONS")
           => (handler.responses = <<200>> /\ handler.calls = {})
        /\ (classified /\ req.method \notin {"OPTIONS", "POST"})
           => (handler.responses = <<405>> /\ handler.calls = {})
        /\ (classified /\ req.method = "POST" /\ req.body.url = <<>>)
           => (handler.responses = <<400>> /\ handler.calls = {})
        /\ (classified /\ req.method = "POST" /\ req.body.url # <<>>
              /\ ~isValidYouTubeUrl(req.body.url))
           => (handler.responses = <<400>> /\ handler.calls = {})
        /\ (\E k \in 1..Len(handler.responses) : handler.responses[k] = 500)
           => handler.responses = <<500>>

\* C28: whenever modelLoaded is true, this.model is a model instance that
\* has finished loading and has not been disposed of
C28_LoadedMeansUsableModel ==
  adapter.modelLoaded
  => /\ adapter.model # 0
     /\ adapter.model \in adapter.loaded
     /\ adapter.model \notin adapter.disposed

\* C29: once cancellation has been requested while a download or a file
\* read is awaited, the next step of startConversion ends the batch: no
\* further URL is downloaded and no further file read, no item is decoded,
\* transcribed or encoded, nothing is recorded as a result or an error, and
\* nothing is offered for download, whether or not sources were acquired
C29_CancelDuringAcquisition ==
  /\ [][(cancelRequested /\ pc \in {"downloadAudio", "readFile"})
          => /\ pc' \in {pc, "idle"}
             /\ pc' = pc => (i' = i /\ audioSources' = audioSources)]_vars
  /\ []((cancelAt # NoCancel /\ cancelAt.phase = "acquire")
         => /\ pc \in {"downloadAudio", "readFile", "idle"}
            /\ called \cap ItemCalls = {}
            /\ results = <<>> /\ errors = <<>>
            /\ outputMIDIPaths = <<>> /\ ~downloadBtnShown
            /\ pc # "idle" => i = cancelAt.i
            /\ pc = "idle"
                 => N <= cancelAt.i + 1
                           + (IF "readFile" \in called THEN Len(urls) ELSE 0))

\* cancelled during the download of the first of two URLs, which then
\* arrived: the batch has ended with one source and nothing processed
C29_Witness ==
  /\ Finished /\ cancelAt # NoCancel /\ cancelAt.phase = "acquire"
  /\ cancelAt.i = 0 /\ Len(urls) = 2 /\ N = 1
  /\ "cancelled" \in log /\ "noneConverted" \in log
  /\ called = {"downloadAudio"}

\* C30: delivery follows the configuration in effect when the batch was
\* started, not the form as it is at the click: every download of the
\* results of one batch makes the same saveAs calls as the download before
\* it, whatever settings were changed in between
C30_DeliveryFixedAtStart ==
  [][(ClickDownload /\ saved # NoDownload)
       => saved'.calls = saved.calls]_vars

\* C31: within one batch the output names of the results are pairwise
\* distinct, so an archive built from k results without the original audio
\* holds k entries, each result's bytes under the result's name
C31_OutputNamesDistinct ==
  /\ Distinct(results)
  /\ (saved # NoDownload /\ Len(outputMIDIPaths) > 1
        /\ saved.settings.zipOutput /\ ~saved.settings.includeMp3)
     => LET zip == saved.calls[1].data
        IN /\ Cardinality(ZipEntries(zip)) = Len(outputMIDIPaths)
           /\ \A k \in 1..Len(outputMIDIPaths) :
                zip[outputMIDIPaths[k].filename]
                  = outputMIDIPaths[k].midiData

-----------------------------------------------------------------------------
\* C32: after an event on the URL field, a browse or a drop of files, the
\* start or the end of a conversion, the convert action is enabled exactly
\* when no batch is processing and a batch would have a source: text in the
\* URL field or a non-empty accepted file selection
C32_ConvertEnabledIffSourceAvailable ==
  [][(\/ InputUrls \/ BrowseFiles \/ DropFiles \/ ClickConvert
      \/ (isProcessing /\ ~isProcessing'))
     => (convertBtnDisabled'
           = ~(~isProcessing'
                 /\ (HasText(youtubeUrls') \/ selectedFiles' # <<>>)))]_vars

-----------------------------------------------------------------------------
\* C33: after any changes of the 'keep' and 'include' boxes, 'include' is
\* checked only if 'keep' is checked, 'keep' is disabled while 'include' is
\* checked, and no step unchecks 'keep' while 'include' is checked
C33_IncludeImpliesKeepLocked ==
  /\ [](includeMp3 => (keepMp3 /\ keepMp3Disabled))
  /\ [][(keepMp3 /\ ~keepMp3') => ~includeMp3]_vars

\* 'include' is checked after changes of the boxes and of other fields:
\* 'keep' is checked and locked
C33_Witness ==
  /\ includeMp3 /\ keepMp3 /\ keepMp3Disabled
  /\ zipOutput /\ customTitle # <<>> /\ selectedFiles # <<>>
  /\ pc = "idle" /\ ~isProcessing

-----------------------------------------------------------------------------
\* C34: when every awaited stage returns or throws, a started conversion
\* eventually leaves the processing state; the step that leaves it resets
\* the processing flag and disables the cancel action, on every exit path;
\* and while the flag is set startConversion is suspended at an await, the
\* convert action is disabled and the cancel action is enabled exactly
\* until a cancel is requested
C34_ConversionEnds ==
  /\ isProcessing ~> ~isProcessing
  /\ [](isProcessing <=> pc # "idle")
  /\ [](isProcessing
          => (convertBtnDisabled /\ cancelBtnDisabled = cancelRequested))
  /\ [][(isProcessing /\ ~isProcessing')
          => (pc' = "idle" /\ cancelBtnDisabled')]_vars
  /\ [](("starting" \in log /\ ~isProcessing) => cancelBtnDisabled)

\* a conversion that was cancelled has ended
C34_Witness ==
  /\ "starting" \in log /\ ~isProcessing /\ pc = "idle"
  /\ cancelRequested /\ cancelBtnDisabled

-----------------------------------------------------------------------------
C11_Witness ==
  /\ adapter.calls = MaxCalls /\ adapter.at = "idle"
  /\ adapter.failed = 0 /\ adapter.disposed = 0
  /\ adapter.modelLoaded /\ adapter.constructed = 1
  /\ adapter.model = 1 /\ adapter.returned = 1

====
